---- MODULE Spec2Model ----
(***************************************************************************)
(* Model of the schematic codec of World-edit-PMC (src/src/schematic.rs):  *)
(* block-state grammar, varint codec, packed long arrays, the single-      *)
(* region decoder and encoder and the multi-region decoder.                *)
(*                                                                         *)
(* Conventions                                                             *)
(*  - A text is a sequence of symbols.  The four delimiters of the         *)
(*    block-state grammar ("[", "]", ",", "=") and the blank " " are       *)
(*    symbols of their own; every other symbol stands for a run of         *)
(*    ordinary characters ("minecraft:stone", "facing", ...).              *)
(*  - A tag is a record [t |-> type, v |-> value]; a compound's value is   *)
(*    the sequence of its <<name, tag>> children (NbtCompound.child_tags). *)
(*  - Indices of the source are 0-based; sequences here are 1-based, so    *)
(*    data[i] of the source is data[i + 1] here.                           *)
(*  - TLC integers are 32-bit: 64-bit words are sequences of 64 bits, low  *)
(*    bit first, and i32 arithmetic is written so that no intermediate     *)
(*    value leaves the i32 range.                                          *)
(***************************************************************************)
EXTENDS Integers, Sequences, FiniteSets, TLC

VARIABLES clipboard, file, result, args, ret, world, players, tasks

vars == <<clipboard, file, result, args, ret, world, players, tasks>>

\* ------------------------------------------------------------------------
\* Sequence helpers
\* ------------------------------------------------------------------------

Min2(a, b) == IF a <= b THEN a ELSE b

Max2(a, b) == IF a >= b THEN a ELSE b

Abs(a) == IF a >= 0 THEN a ELSE -a

Range(s) == {s[i] : i \in 1..Len(s)}

\* str::find(c): the 1-based place of the first c in s, 0 for None.
Find(s, c) ==
  IF \E i \in 1..Len(s) : s[i] = c
  THEN CHOOSE i \in 1..Len(s) : s[i] = c /\ \A j \in 1..(i - 1) : s[j] # c
  ELSE 0

\* str::rfind(c): the 1-based place of the last c in s, 0 for None.
RFind(s, c) ==
  IF \E i \in 1..Len(s) : s[i] = c
  THEN CHOOSE i \in 1..Len(s) : s[i] = c /\ \A j \in (i + 1)..Len(s) : s[j] # c
  ELSE 0

\* str::split(c): the segments of s between the occurrences of c.
RECURSIVE Split(_, _)
Split(s, c) ==
  LET f == Find(s, c)
  IN  IF f = 0 THEN <<s>>
      ELSE <<SubSeq(s, 1, f - 1)>> \o Split(SubSeq(s, f + 1, Len(s)), c)

\* str::trim(): s without its leading and trailing blanks.
RECURSIVE TrimStart(_)
TrimStart(s) ==
  IF Len(s) > 0 /\ s[1] = " " THEN TrimStart(Tail(s)) ELSE s

RECURSIVE TrimEnd(_)
TrimEnd(s) ==
  IF Len(s) > 0 /\ s[Len(s)] = " " THEN TrimEnd(SubSeq(s, 1, Len(s) - 1)) ELSE s

Trim(s) == TrimEnd(TrimStart(s))

\* Iterator::filter_map over a sequence of [some |-> BOOLEAN, val |-> ...].
RECURSIVE FilterSome(_)
FilterSome(opts) ==
  IF Len(opts) = 0 THEN <<>>
  ELSE IF Head(opts).some THEN <<Head(opts).val>> \o FilterSome(Tail(opts))
       ELSE FilterSome(Tail(opts))

\* ------------------------------------------------------------------------
\* Block registry (pumpkin_data::Block), the external collaborator
\* ------------------------------------------------------------------------

\* One record per block: its name, its states in id order and, per state,
\* the ordered property list that Block::properties(id).to_props() yields.
Registry ==
  << [name |-> "minecraft:air", states |-> <<0>>, default |-> 0,
      props |-> << <<>> >>],
     [name |-> "minecraft:stone", states |-> <<1>>, default |-> 1,
      props |-> << <<>> >>],
     [name |-> "minecraft:oak_stairs", states |-> <<2, 3, 4, 5>>, default |-> 2,
      props |-> << << <<"facing", "north">>, <<"half", "bottom">> >>,
                   << <<"facing", "north">>, <<"half", "top">> >>,
                   << <<"facing", "south">>, <<"half", "bottom">> >>,
                   << <<"facing", "south">>, <<"half", "top">> >> >>] >>

AllStateIds == UNION {Range(Registry[b].states) : b \in 1..Len(Registry)}

\* Block::from_name(name): the block's place in the registry, 0 for None.
Block_from_name(name) ==
  IF \E b \in 1..Len(Registry) : name = <<Registry[b].name>>
  THEN CHOOSE b \in 1..Len(Registry) : name = <<Registry[b].name>>
  ELSE 0

\* Block::from_state_id(id): the block that owns the state.
Block_from_state_id(id) ==
  CHOOSE b \in 1..Len(Registry) : id \in Range(Registry[b].states)

\* The place of state id among the states of block b.
StateIndex(b, id) ==
  CHOOSE k \in 1..Len(Registry[b].states) : Registry[b].states[k] = id

\* Block::properties(id).to_props(): the ordered property list of a state.
Block_properties(id) ==
  LET b == Block_from_state_id(id) IN Registry[b].props[StateIndex(b, id)]

\* The air state id: Block::from_name("minecraft:air").default_state.id.
air_state_id == Registry[Block_from_name(<<"minecraft:air">>)].default

\* The keys and, per key, the values the properties of block b can take.
PropKeys(b) ==
  {Registry[b].props[k][j][1] :
     k \in 1..Len(Registry[b].props), j \in 1..Len(Registry[b].props[1])}

PropValues(b, key) ==
  {Registry[b].props[k][j][2] :
     k \in 1..Len(Registry[b].props),
     j \in {jj \in 1..Len(Registry[b].props[1]) : Registry[b].props[1][jj][1] = key}}

\* block.from_properties(props): starts from the default state's properties
\* and assigns every given (key, value) in order; an unknown key or value
\* panics.  The result is [panic |-> BOOLEAN, props |-> property list].
RECURSIVE Block_from_properties(_, _, _)
Block_from_properties(b, given, acc) ==
  IF Len(given) = 0 THEN [panic |-> FALSE, props |-> acc]
  ELSE LET kv == Head(given)
       IN  IF Len(kv[1]) # 1 \/ Len(kv[2]) # 1
              \/ kv[1][1] \notin PropKeys(b)
           THEN [panic |-> TRUE, props |-> acc]
           ELSE IF kv[2][1] \notin PropValues(b, kv[1][1])
           THEN [panic |-> TRUE, props |-> acc]
           ELSE Block_from_properties(b, Tail(given),
                  [j \in 1..Len(acc) |->
                     IF acc[j][1] = kv[1][1] THEN <<acc[j][1], kv[2][1]>> ELSE acc[j]])

\* props.to_state_id(block): the state of block b with these properties.
Block_to_state_id(b, props) ==
  Registry[b].states[CHOOSE k \in 1..Len(Registry[b].props) : Registry[b].props[k] = props]

\* ------------------------------------------------------------------------
\* Block-state grammar
\* ------------------------------------------------------------------------

\* One segment kv of props_str: kv.splitn(2, '='), both parts trimmed; None
\* when there is no '=' or the key is empty.
ParseProperty(kv) ==
  LET eq == Find(kv, "=")
      key == Trim(IF eq = 0 THEN kv ELSE SubSeq(kv, 1, eq - 1))
      value == Trim(SubSeq(kv, eq + 1, Len(kv)))
  IN  IF eq = 0 \/ Len(key) = 0
      THEN [some |-> FALSE, val |-> <<>>]
      ELSE [some |-> TRUE, val |-> <<key, value>>]

\* parse_block_state_string(s).  bracket_start and bracket_end are the
\* 0-based byte places of the source; the slice s[bracket_start + 1 ..
\* bracket_end] panics when its start lies behind its end.
parse_block_state_string(s) ==
  LET f == Find(s, "[")
      r == RFind(s, "]")
      bracket_start == f - 1
      bracket_end == IF r = 0 THEN Len(s) ELSE r - 1
      props_str == SubSeq(s, bracket_start + 2, bracket_end)
      segments == Split(props_str, ",")
  IN  IF f = 0 THEN [panic |-> FALSE, name |-> s, props |-> <<>>]
      ELSE IF bracket_start + 1 > bracket_end
      THEN [panic |-> TRUE, name |-> SubSeq(s, 1, bracket_start), props |-> <<>>]
      ELSE [panic |-> FALSE, name |-> SubSeq(s, 1, bracket_start),
            props |-> FilterSome([k \in 1..Len(segments) |-> ParseProperty(segments[k])])]

\* resolve_block_state(s): [st |-> "some", id], [st |-> "none"] or, when the
\* parse panics outside catch_unwind, [st |-> "panic"].
resolve_block_state(block_state_str) ==
  LET parsed == parse_block_state_string(block_state_str)
      block == Block_from_name(parsed.name)
      from_props == Block_from_properties(block, parsed.props, Registry[block].props[1])
  IN  IF parsed.panic THEN [st |-> "panic", id |-> 0]
      ELSE IF block = 0 THEN [st |-> "none", id |-> 0]
      ELSE IF Len(parsed.props) = 0 \/ Len(Registry[block].states) <= 1
      THEN [st |-> "some", id |-> Registry[block].default]
      ELSE IF from_props.panic
      THEN [st |-> "some", id |-> Registry[block].default]
      ELSE [st |-> "some", id |-> Block_to_state_id(block, from_props.props)]

\* The text "k1=v1,k2=v2,..." of a property list (props_str.join(",")).
RECURSIVE JoinProps(_)
JoinProps(props) ==
  IF Len(props) = 0 THEN <<>>
  ELSE IF Len(props) = 1 THEN <<props[1][1], "=", props[1][2]>>
  ELSE <<props[1][1], "=", props[1][2], ",">> \o JoinProps(Tail(props))

\* build_block_state_string(state_id).
build_block_state_string(state_id) ==
  LET block == Block_from_state_id(state_id)
      name == <<Registry[block].name>>
      prop_list == Block_properties(state_id)
  IN  IF Len(prop_list) = 0 THEN name
      ELSE name \o <<"[">> \o JoinProps(prop_list) \o <<"]">>

\* ------------------------------------------------------------------------
\* Varint codec
\* ------------------------------------------------------------------------

\* Faulty variant of OrShl: the fifth group never reaches the sign bit.
OrShl_without_sign(value, group, bit_offset) ==
  IF bit_offset < 28 THEN value + group * 2^bit_offset
  ELSE value + (group % 8) * 2^28

\* value |= group << bit_offset on i32, for a 7-bit group and a value that
\* holds only bits below bit_offset.  At bit_offset 28 the shift keeps the
\* low four bits of the group, the fourth being the sign bit.
OrShl(value, group, bit_offset) ==
  IF bit_offset < 28 THEN value + group * 2^bit_offset
  ELSE LET low == value + (group % 8) * 2^28
       IN  IF (group \div 8) % 2 = 1 THEN (low - 2^30) - 2^30 ELSE low

\* Faulty variant of decode_value: a value the data ends in is returned as
\* far as it was read.
RECURSIVE decode_value_to_the_end(_, _, _, _)
decode_value_to_the_end(data, i, value, bit_offset) ==
  IF i >= Len(data)
  THEN [st |-> "ok", msg |-> "", i |-> i, value |-> value]
  ELSE LET byte == data[i + 1]
           value2 == OrShl(value, byte % 128, bit_offset)
       IN  IF (byte \div 128) % 2 = 0
           THEN [st |-> "ok", msg |-> "", i |-> i + 1, value |-> value2]
           ELSE IF bit_offset + 7 >= 35
           THEN [st |-> "err", msg |-> "Varint too large", i |-> i + 1, value |-> 0]
           ELSE decode_value_to_the_end(data, i + 1, value2, bit_offset + 7)

\* The inner loop of decode_varints: one value, read from the 0-based place i.
RECURSIVE decode_value(_, _, _, _)
decode_value(data, i, value, bit_offset) ==
  IF i >= Len(data)
  THEN [st |-> "err", msg |-> "Unexpected end of varint data", i |-> i, value |-> 0]
  ELSE LET byte == data[i + 1]
           value2 == OrShl(value, byte % 128, bit_offset)
       IN  IF (byte \div 128) % 2 = 0
           THEN [st |-> "ok", msg |-> "", i |-> i + 1, value |-> value2]
           ELSE IF bit_offset + 7 >= 35
           THEN [st |-> "err", msg |-> "Varint too large", i |-> i + 1, value |-> 0]
           ELSE decode_value(data, i + 1, value2, bit_offset + 7)

\* The outer loop of decode_varints.
RECURSIVE decode_loop(_, _, _, _)
decode_loop(data, expected_count, i, res) ==
  IF i < Len(data) /\ Len(res) < expected_count
  THEN LET one == decode_value(data, i, 0, 0)
       IN  IF one.st = "err" THEN [st |-> "err", msg |-> one.msg, vals |-> <<>>]
           ELSE decode_loop(data, expected_count, one.i, Append(res, one.value))
  ELSE [st |-> "ok", msg |-> "", vals |-> res]

\* decode_varints(data, expected_count).
decode_varints(data, expected_count) == decode_loop(data, expected_count, 0, <<>>)

\* value as u32, as the pair <<low 7 bits, the other 25 bits>>: the split
\* keeps a negative value's pattern inside TLC's integers.
U32Groups(value) ==
  IF value >= 0 THEN <<value % 128, value \div 128>>
  ELSE LET m == (value + 2^30) + 2^30   \* value + 2^31, in 0 .. 2^31 - 1
       IN  <<m % 128, (m \div 128) + 2^24>>

\* The loop of encode_varints on one value, v = <<next group, rest>>.
RECURSIVE encode_groups(_, _)
encode_groups(low, rest) ==
  IF rest # 0
  THEN <<low + 128>> \o encode_groups(rest % 128, rest \div 128)
  ELSE <<low>>

\* Faulty variant of encode_value: five groups whatever the value.
encode_value_padded(value) ==
  LET low == U32Groups(value)[1]
      rest == U32Groups(value)[2]
  IN  <<low + 128, (rest % 128) + 128, ((rest \div 128) % 128) + 128,
        ((rest \div 16384) % 128) + 128, rest \div 2097152>>

encode_value(value) == encode_groups(U32Groups(value)[1], U32Groups(value)[2])

\* encode_varints(values).
RECURSIVE encode_varints(_)
encode_varints(values) ==
  IF Len(values) = 0 THEN <<>>
  ELSE encode_value(Head(values)) \o encode_varints(Tail(values))

\* ------------------------------------------------------------------------
\* Packed long arrays
\* ------------------------------------------------------------------------

MIN_BITS_PER_ENTRY == 4

\* usize::BITS - n.leading_zeros(): the number of bits of n.
RECURSIVE BitLength(_)
BitLength(n) == IF n = 0 THEN 0 ELSE 1 + BitLength(n \div 2)

\* Faulty variant of bits_for_palette_size: the bits of the length, not of
\* the largest index.
bits_for_palette_size_of_len(palette_len) ==
  IF palette_len <= 1 THEN MIN_BITS_PER_ENTRY
  ELSE Max2(BitLength(palette_len), MIN_BITS_PER_ENTRY)

\* bits_for_palette_size(palette_len).
bits_for_palette_size(palette_len) ==
  IF palette_len <= 1 THEN MIN_BITS_PER_ENTRY
  ELSE Max2(BitLength(palette_len - 1), MIN_BITS_PER_ENTRY)

\* (long >> bit_start) & mask of a word given as 64 bits, low bit first,
\* for a mask of mask_bits one bits (at most 31 of them here).
RECURSIVE FieldValue(_, _, _)
FieldValue(word, bit_start, mask_bits) ==
  IF mask_bits = 0 \/ bit_start >= 64 THEN 0
  ELSE word[bit_start + 1] + 2 * FieldValue(word, bit_start + 1, mask_bits - 1)

\* Bit k of (long >> bit_start) & mask.
FieldBit(word, bit_start, mask_bits, k) ==
  IF k < mask_bits /\ bit_start + k < 64 THEN word[bit_start + k + 1] ELSE 0

\* ((long >> bit_start) & mask) as u32: the low 32 bits of the field.  The
\* u32 is held as the i32 of the same bits, which is also what the caller's
\* "as i32" makes of it.
field_as_u32(word, bit_start, mask_bits) ==
  LET low == FieldValue(word, bit_start, Min2(mask_bits, 31))
  IN  IF FieldBit(word, bit_start, mask_bits, 31) = 1 THEN (low - 2^30) - 2^30 ELSE low

\* The loop of unpack_packed_long_array from entry i on.
RECURSIVE unpack_loop(_, _, _, _, _)
unpack_loop(longs, block_count, bits_per_entry, mask_bits, i) ==
  LET blocks_per_long == 64 \div bits_per_entry
      long_index == i \div blocks_per_long
      offset_in_long == i % blocks_per_long
      bit_start == offset_in_long * bits_per_entry
      rest == unpack_loop(longs, block_count, bits_per_entry, mask_bits, i + 1)
  IN  IF i >= block_count THEN [st |-> "ok", msg |-> "", vals |-> <<>>]
      ELSE IF long_index >= Len(longs)
      THEN [st |-> "err", msg |-> "BlockStates array too short", vals |-> <<>>]
      ELSE IF rest.st # "ok" THEN rest
      ELSE [st |-> "ok", msg |-> "",
            vals |-> <<field_as_u32(longs[long_index + 1], bit_start, mask_bits)>> \o rest.vals]

\* unpack_packed_long_array(longs, block_count, bits_per_entry).  At 64 bits
\* 1u64 << bits_per_entry overflows: a build with overflow checks panics, one
\* without shifts by 64 % 64 = 0 and gets the mask 0.
unpack_packed_long_array(longs, block_count, bits_per_entry, overflow_checks) ==
  IF bits_per_entry = 0 \/ bits_per_entry > 64
  THEN [st |-> "err", msg |-> "Invalid bits_per_entry", vals |-> <<>>]
  ELSE IF bits_per_entry = 64 /\ overflow_checks
  THEN [st |-> "panic", msg |-> "attempt to shift left with overflow", vals |-> <<>>]
  ELSE unpack_loop(longs, block_count, bits_per_entry,
                   IF bits_per_entry = 64 THEN 0 ELSE bits_per_entry, 0)

\* ------------------------------------------------------------------------
\* Tag trees (pumpkin_nbt), the external collaborator
\* ------------------------------------------------------------------------

TInt(n) == [t |-> "int", v |-> n]

TShort(n) == [t |-> "short", v |-> n]

TIntArray(a) == [t |-> "int_array", v |-> a]

TByteArray(a) == [t |-> "byte_array", v |-> a]

TLongArray(a) == [t |-> "long_array", v |-> a]

TList(a) == [t |-> "list", v |-> a]

TCompound(children) == [t |-> "compound", v |-> children]

None == [some |-> FALSE, v |-> 0]

Some(x) == [some |-> TRUE, v |-> x]

\* NbtCompound::get(name): the first child of that name.
Get(children, name) ==
  IF \E k \in 1..Len(children) : children[k][1] = name
  THEN Some(children[CHOOSE k \in 1..Len(children) :
                       children[k][1] = name /\ \A j \in 1..(k - 1) : children[j][1] # name][2])
  ELSE None

\* The typed getters: absence on a missing key or another tag type.
GetTyped(children, name, type) ==
  LET tag == Get(children, name)
  IN  IF tag.some /\ tag.v.t = type THEN Some(tag.v.v) ELSE None

get_compound(children, name) == GetTyped(children, name, "compound")

get_int(children, name) == GetTyped(children, name, "int")

get_short(children, name) == GetTyped(children, name, "short")

get_int_array(children, name) == GetTyped(children, name, "int_array")

get_list(children, name) == GetTyped(children, name, "list")

get_byte_array(children, name) == GetTyped(children, name, "byte_array")

get_long_array(children, name) == GetTyped(children, name, "long_array")

\* i16 as u16, i32 as u16.
AsU16(n) == n % 2^16

\* u16 as i16.
AsI16(n) == IF n >= 2^15 THEN n - 2^16 ELSE n

\* ------------------------------------------------------------------------
\* Results
\* ------------------------------------------------------------------------

NoBlocks == <<>>

\* Ok(SchematicData {width, height, length, offset, blocks}).
Doc(width, height, length, offset, blocks) ==
  [st |-> "ok", msg |-> "", width |-> width, height |-> height, length |-> length,
   offset |-> offset, blocks |-> blocks]

\* Err(msg).
Err(msg) ==
  [st |-> "err", msg |-> msg, width |-> 0, height |-> 0, length |-> 0,
   offset |-> <<0, 0, 0>>, blocks |-> NoBlocks]

\* A panic that unwinds out of the operation.
Panic(msg) ==
  [st |-> "panic", msg |-> msg, width |-> 0, height |-> 0, length |-> 0,
   offset |-> <<0, 0, 0>>, blocks |-> NoBlocks]

\* Ok(()) of save_schematic.
Saved ==
  [st |-> "ok", msg |-> "", width |-> 0, height |-> 0, length |-> 0,
   offset |-> <<0, 0, 0>>, blocks |-> NoBlocks]

\* ------------------------------------------------------------------------
\* Palette of a decode: index -> block state string
\* ------------------------------------------------------------------------

\* The HashMap built from a palette compound: every Int child inserts
\* (index, name), a later child replacing an earlier one of the same index.
palette_by_index(children) ==
  LET ints == {k \in 1..Len(children) : children[k][2].t = "int"}
      indices == {children[k][2].v : k \in ints}
  IN  [idx \in indices |->
         children[CHOOSE k \in ints : children[k][2].v = idx
                    /\ \A j \in ints : children[j][2].v = idx => j <= k][1]]

\* The state id of one palette index in load_schematic: air when the index
\* has no entry or the string resolves to no block.
sponge_state_id(palette_map, palette_index) ==
  IF palette_index \in DOMAIN palette_map
  THEN LET resolved == resolve_block_state(palette_map[palette_index])
       IN  IF resolved.st = "none" THEN [st |-> "some", id |-> air_state_id] ELSE resolved
  ELSE [st |-> "some", id |-> air_state_id]

\* ------------------------------------------------------------------------
\* load_schematic: the single-region (Sponge) decoder
\* ------------------------------------------------------------------------

\* unwrap_or of an Option.
UnwrapOr(opt, default) == IF opt.some THEN opt.v ELSE default

\* Faulty variant of sponge_offset: the Offset tag is not read.
sponge_offset_origin(offset_arr) == <<0, 0, 0>>

\* Lines 259-267: the Offset tag, the origin when it is absent or short.
sponge_offset(offset_arr) ==
  IF offset_arr.some /\ Len(offset_arr.v) >= 3
  THEN <<offset_arr.v[1], offset_arr.v[2], offset_arr.v[3]>>
  ELSE <<0, 0, 0>>

\* Faulty variant of sponge_indices: the count of indices is not checked.
sponge_indices_unchecked(width, height, length, offset, palette, block_indices) ==
  IF block_indices.st = "err" THEN [st |-> "err", msg |-> block_indices.msg]
  ELSE [st |-> "ok", msg |-> "", width |-> width, height |-> height,
        length |-> length, offset |-> offset,
        palette_map |-> palette_by_index(palette),
        block_indices |-> block_indices.vals]

\* Lines 305-314: the decoded indices, checked against the declared volume.
sponge_indices(width, height, length, offset, palette, block_indices) ==
  IF block_indices.st = "err" THEN [st |-> "err", msg |-> block_indices.msg]
  ELSE IF Len(block_indices.vals) # width * height * length
  THEN [st |-> "err", msg |-> "Block data count mismatch"]
  ELSE [st |-> "ok", msg |-> "", width |-> width, height |-> height,
        length |-> length, offset |-> offset,
        palette_map |-> palette_by_index(palette),
        block_indices |-> block_indices.vals]

\* Lines 269-307: the palette and the data of a version 3 file (blocks is the
\* Blocks compound) or of a version 2 file (palette and data lie in data_root).
sponge_payload(version, blocks, palette, data, width, height, length, offset) ==
  IF version >= 3 /\ ~blocks.some
  THEN [st |-> "err", msg |-> "Missing Blocks compound"]
  ELSE IF ~palette.some
  THEN [st |-> "err", msg |-> IF version >= 3 THEN "Missing Blocks.Palette compound"
                              ELSE "Missing Palette compound"]
  ELSE IF ~data.some
  THEN [st |-> "err", msg |-> IF version >= 3 THEN "Missing Blocks.Data byte array"
                              ELSE "Missing BlockData byte array"]
  ELSE sponge_indices(width, height, length, offset, palette.v,
                      decode_varints(data.v, width * height * length))

\* Lines 245-293: the dimensions, then the payload at the version's place.
sponge_dimensions(data_root, version, blocks, width, height, length) ==
  IF ~width.some THEN [st |-> "err", msg |-> "Missing Width tag"]
  ELSE IF ~height.some THEN [st |-> "err", msg |-> "Missing Height tag"]
  ELSE IF ~length.some THEN [st |-> "err", msg |-> "Missing Length tag"]
  ELSE sponge_payload(version, blocks,
         IF version >= 3 THEN get_compound(UnwrapOr(blocks, <<>>), "Palette")
         ELSE get_compound(data_root, "Palette"),
         IF version >= 3 THEN get_byte_array(UnwrapOr(blocks, <<>>), "Data")
         ELSE get_byte_array(data_root, "BlockData"),
         AsU16(width.v), AsU16(height.v), AsU16(length.v),
         sponge_offset(get_int_array(data_root, "Offset")))

\* Lines 232-241: the data root and the version, 3 by default under a
\* Schematic wrapper and 2 by default without one.
sponge_data_root(data_root, default_version) ==
  sponge_dimensions(data_root, UnwrapOr(get_int(data_root, "Version"), default_version),
                    get_compound(data_root, "Blocks"),
                    get_short(data_root, "Width"), get_short(data_root, "Height"),
                    get_short(data_root, "Length"))

\* Faulty variant of sponge_header: the version is 2 by default everywhere.
sponge_header_flat_default(root) ==
  IF get_compound(root, "Schematic").some
  THEN sponge_data_root(get_compound(root, "Schematic").v, 2)
  ELSE sponge_data_root(root, 2)

\* Lines 232-314: everything load_schematic reads before it resolves blocks.
sponge_header(root) ==
  IF get_compound(root, "Schematic").some
  THEN sponge_data_root(get_compound(root, "Schematic").v, 3)
  ELSE sponge_data_root(root, 2)

\* Faulty variant of keep_block: air is kept too.
keep_block_air_too(state_id) == TRUE

\* Whether the block of one state id is kept: air is skipped.
keep_block(state_id) == state_id # air_state_id

\* Faulty variant of sponge_position: the layer is taken from the row length.
sponge_position_by_row(i, width, length, offset) ==
  LET y == i \div width
      remainder == i % (width * length)
      z == remainder \div width
      x == remainder % width
  IN  <<x + offset[1], y + offset[2], z + offset[3]>>

\* The position stored for data index i (lines 325-328 and 343).
sponge_position(i, width, length, offset) ==
  LET y == i \div (width * length)
      remainder == i % (width * length)
      z == remainder \div width
      x == remainder % width
  IN  <<x + offset[1], y + offset[2], z + offset[3]>>

\* Lines 321-347: the blocks of the data indices from i on.
RECURSIVE sponge_blocks(_, _)
sponge_blocks(h, i) ==
  IF i >= Len(h.block_indices) THEN [st |-> "ok", blocks |-> <<>>]
  ELSE LET state == sponge_state_id(h.palette_map, h.block_indices[i + 1])
           rest == sponge_blocks(h, i + 1)
       IN  IF state.st = "panic" \/ rest.st = "panic"
           THEN [st |-> "panic", blocks |-> <<>>]
           ELSE IF keep_block(state.id)
           THEN [st |-> "ok",
                 blocks |-> << <<sponge_position(i, h.width, h.length, h.offset), state.id>> >>
                            \o rest.blocks]
           ELSE rest

\* Lines 349-360: the document of a decoded header.
sponge_document(h, decoded) ==
  IF decoded.st = "panic" THEN Panic("slice index starts after its end")
  ELSE Doc(h.width, h.height, h.length, h.offset, decoded.blocks)

sponge_decode(h) ==
  IF h.st = "err" THEN Err(h.msg) ELSE sponge_document(h, sponge_blocks(h, 0))

\* load_schematic from line 232 on, for a parsed root.
load_sponge(root) == sponge_decode(sponge_header(root))

\* ------------------------------------------------------------------------
\* load_litematic: the multi-region (Litematica) decoder
\* ------------------------------------------------------------------------

PositionKeys == <<"Position", "Pos", "position", "pos">>

SizeKeys == <<"Size", "Dimensions", "size", "dimensions">>

\* The first key whose tag is an int array of at least three elements.
RECURSIVE vector_from_int_array(_, _)
vector_from_int_array(region, keys) ==
  IF Len(keys) = 0 THEN None
  ELSE LET arr == get_int_array(region, Head(keys))
       IN  IF arr.some /\ Len(arr.v) >= 3
           THEN Some(<<arr.v[1], arr.v[2], arr.v[3]>>)
           ELSE vector_from_int_array(region, Tail(keys))

\* The first key whose tag is a list of at least three elements decides:
\* [found |-> TRUE, res |-> the vector, or None when an element is no Int].
RECURSIVE vector_from_list(_, _)
vector_from_list(region, keys) ==
  IF Len(keys) = 0 THEN [found |-> FALSE, res |-> None]
  ELSE LET list == get_list(region, Head(keys))
       IN  IF list.some /\ Len(list.v) >= 3
           THEN [found |-> TRUE,
                 res |-> IF \A k \in 1..3 : list.v[k].t = "int"
                         THEN Some(<<list.v[1].v, list.v[2].v, list.v[3].v>>)
                         ELSE None]
           ELSE vector_from_list(region, Tail(keys))

\* a.or_else(|| b) of two Options.
OrElse(a, b) == IF a.some THEN a ELSE b

\* Some(vector) when all three Options hold a value.
vector_of(a, b, c) == IF a.some /\ b.some /\ c.some THEN Some(<<a.v, b.v, c.v>>) ELSE None

\* Three scalar Int tags, each under its first or its second spelling.
vector_from_scalars(compound, first, second) ==
  vector_of(OrElse(get_int(compound, first[1]), get_int(compound, second[1])),
            OrElse(get_int(compound, first[2]), get_int(compound, second[2])),
            OrElse(get_int(compound, first[3]), get_int(compound, second[3])))

\* An int array decides first, then a list, then the scalar tags.
first_vector(arr, list, scalars) ==
  IF arr.some THEN arr ELSE IF list.found THEN list.res ELSE scalars

\* get_region_position(region).
get_region_position(region) ==
  first_vector(vector_from_int_array(region, PositionKeys),
               vector_from_list(region, PositionKeys),
               vector_of(get_int(region, "x"), get_int(region, "y"), get_int(region, "z")))

\* get_region_size(region).
get_region_size(region) ==
  first_vector(vector_from_int_array(region, SizeKeys),
               vector_from_list(region, SizeKeys),
               vector_from_scalars(region, <<"width", "height", "length">>,
                                   <<"size_x", "size_y", "size_z">>))

\* get_size_from_metadata(root).
get_size_from_metadata(root) ==
  IF ~get_compound(root, "Metadata").some THEN None
  ELSE vector_from_scalars(get_compound(root, "Metadata").v,
         <<"EnclosureWidth", "EnclosureHeight", "EnclosureLength">>,
         <<"Width", "Height", "Length">>)

\* Faulty variant of region_base: a negative size does not move the base.
region_base_unflipped(pos, size) == pos

\* The base coordinate of a region on one axis (lines 500-515).
region_base(pos, size) == IF size >= 0 THEN pos ELSE pos + size + 1

\* The absolute coordinate of local index i (lines 518-525).
litematic_position(i, w_abs, l_abs, base) ==
  LET local_x == i % w_abs
      rest == i \div w_abs
      local_z == rest % l_abs
      local_y == rest \div l_abs
  IN  <<base[1] + local_x, base[2] + local_y, base[3] + local_z>>

\* The state id of one palette index in load_litematic (lines 527-532).
litematic_state_id(palette_map, palette_index) ==
  IF palette_index \in DOMAIN palette_map
  THEN LET resolved == resolve_block_state(palette_map[palette_index])
       IN  IF resolved.st = "none" THEN [st |-> "some", id |-> air_state_id] ELSE resolved
  ELSE [st |-> "some", id |-> air_state_id]

\* The accumulator of the region loop: all_blocks, global_min, global_max.
EmptyAcc == [blocks |-> <<>>, min |-> None, max |-> None]

\* Lines 534-553: one non-air block joins the accumulator.
push_block(acc, v, state_id) ==
  [blocks |-> Append(acc.blocks, <<v, state_id>>),
   min |-> IF acc.min.some
           THEN Some(<<Min2(acc.min.v[1], v[1]), Min2(acc.min.v[2], v[2]),
                       Min2(acc.min.v[3], v[3])>>)
           ELSE Some(v),
   max |-> IF acc.max.some
           THEN Some(<<Max2(acc.max.v[1], v[1]), Max2(acc.max.v[2], v[2]),
                       Max2(acc.max.v[3], v[3])>>)
           ELSE Some(v)]

\* Lines 517-554: the block loop of one region, from local index i on.
RECURSIVE litematic_blocks(_, _, _, _, _, _, _)
litematic_blocks(palette_map, palette_indices, w_abs, l_abs, base, i, acc) ==
  IF i >= Len(palette_indices) THEN [st |-> "ok", msg |-> "", acc |-> acc]
  ELSE LET state == litematic_state_id(palette_map, palette_indices[i + 1])
           v == litematic_position(i, w_abs, l_abs, base)
       IN  IF state.st = "panic"
           THEN [st |-> "panic", msg |-> "slice index starts after its end", acc |-> acc]
           ELSE litematic_blocks(palette_map, palette_indices, w_abs, l_abs, base, i + 1,
                  IF keep_block(state.id) THEN push_block(acc, v, state.id) ELSE acc)

\* Whether a region of block_count blocks is skipped (lines 470-472).
skip_region(block_count) == block_count = 0

\* Lines 494-559: the unpacked indices, then the block loop.
region_with_indices(palette_map, palette_indices, w_abs, l_abs, base, acc) ==
  IF palette_indices.st # "ok"
  THEN [st |-> "err", msg |-> palette_indices.msg, acc |-> acc]
  ELSE litematic_blocks(palette_map, palette_indices.vals, w_abs, l_abs, base, 0, acc)

\* Faulty variant of region_with_palette: a region without a palette or
\* without a packed array is passed over.
region_with_palette_lenient(palette_compound, block_states, block_count, w_abs, l_abs, base, acc) ==
  IF ~palette_compound.some \/ ~block_states.some
  THEN [st |-> "ok", msg |-> "", acc |-> acc]
  ELSE region_with_indices(
         palette_by_index(palette_compound.v),
         unpack_packed_long_array(block_states.v, block_count,
           bits_for_palette_size(Cardinality(DOMAIN palette_by_index(palette_compound.v))),
           TRUE),
         w_abs, l_abs, base, acc)

\* Lines 476-498: the palette, then the packed array, then its unpacking at
\* the width the palette's size gives.
region_with_palette(palette_compound, block_states, block_count, w_abs, l_abs, base, acc) ==
  IF ~palette_compound.some
  THEN [st |-> "err", msg |-> "Region missing BlockStatePalette", acc |-> acc]
  ELSE IF ~block_states.some
  THEN [st |-> "err", msg |-> "Region missing BlockStates long array", acc |-> acc]
  ELSE region_with_indices(
         palette_by_index(palette_compound.v),
         unpack_packed_long_array(block_states.v, block_count,
           bits_for_palette_size(Cardinality(DOMAIN palette_by_index(palette_compound.v))),
           TRUE),
         w_abs, l_abs, base, acc)

\* Lines 463-515: the absolute sizes, the block count and the base corner.
region_with_size(region, pos, size, acc) ==
  IF ~size.some
  THEN [st |-> "err", msg |-> "Region missing Size/Dimensions", acc |-> acc]
  ELSE IF skip_region(Abs(size.v[1]) * Abs(size.v[2]) * Abs(size.v[3]))
  THEN [st |-> "ok", msg |-> "", acc |-> acc]
  ELSE region_with_palette(
         get_compound(region, "BlockStatePalette"), get_long_array(region, "BlockStates"),
         Abs(size.v[1]) * Abs(size.v[2]) * Abs(size.v[3]), Abs(size.v[1]), Abs(size.v[3]),
         <<region_base(pos[1], size.v[1]), region_base(pos[2], size.v[2]),
           region_base(pos[3], size.v[3])>>,
         acc)

\* Lines 452-559: one child of Regions.
litematic_region(root, region_tag, acc) ==
  IF region_tag.t # "compound" THEN [st |-> "ok", msg |-> "", acc |-> acc]
  ELSE region_with_size(region_tag.v,
         UnwrapOr(get_region_position(region_tag.v), <<0, 0, 0>>),
         OrElse(get_region_size(region_tag.v), get_size_from_metadata(root)),
         acc)

\* Line 451: the loop over the children of Regions, from child k on.
RECURSIVE litematic_regions(_, _, _, _)
litematic_regions(root, regions, k, acc) ==
  IF k > Len(regions) THEN [st |-> "ok", msg |-> "", acc |-> acc]
  ELSE LET one == litematic_region(root, regions[k][2], acc)
       IN  IF one.st # "ok" THEN one
           ELSE litematic_regions(root, regions, k + 1, one.acc)

\* Lines 572-575: the positions relative to the bounding box's minimum.
RECURSIVE normalize_blocks(_, _)
normalize_blocks(blocks, min) ==
  IF Len(blocks) = 0 THEN <<>>
  ELSE LET pos == Head(blocks)[1]
       IN  << <<<<pos[1] - min[1], pos[2] - min[2], pos[3] - min[3]>>, Head(blocks)[2]>> >>
           \o normalize_blocks(Tail(blocks), min)

\* Lines 562-591: the bounding box, the dimensions, the document.
litematic_document(merged) ==
  IF merged.st = "panic" THEN Panic(merged.msg)
  ELSE IF merged.st = "err" THEN Err(merged.msg)
  ELSE IF ~(merged.acc.min.some /\ merged.acc.max.some)
  THEN Err("No blocks in Litematica regions")
  ELSE Doc(AsU16(merged.acc.max.v[1] - merged.acc.min.v[1] + 1),
           AsU16(merged.acc.max.v[2] - merged.acc.min.v[2] + 1),
           AsU16(merged.acc.max.v[3] - merged.acc.min.v[3] + 1),
           merged.acc.min.v, normalize_blocks(merged.acc.blocks, merged.acc.min.v))

\* load_litematic(root).
load_litematic(root) ==
  IF ~get_compound(root, "Regions").some THEN Err("Missing Regions compound")
  ELSE litematic_document(
         litematic_regions(root, get_compound(root, "Regions").v, 1, EmptyAcc))

\* ------------------------------------------------------------------------
\* load_schematic: file read, tag parse and format dispatch
\* ------------------------------------------------------------------------

\* A path holds no file, bytes that are no gzip tag tree, or a tag tree.
NoFile == [kind |-> "missing", root |-> <<>>]

Garbage == [kind |-> "garbage", root |-> <<>>]

NbtFile(root) == [kind |-> "nbt", root |-> root]

\* Faulty variant of is_litematic: the Schematic compound is not looked at.
is_litematic_by_regions(root) == get_compound(root, "Regions").some

\* Lines 224-230: a Regions compound and no Schematic compound.
is_litematic(root) ==
  get_compound(root, "Regions").some /\ ~get_compound(root, "Schematic").some

\* load_schematic(path), for the file f at path.
load_schematic(f) ==
  IF f.kind = "missing" THEN Err("Failed to read schematic file")
  ELSE IF f.kind = "garbage" THEN Err("Failed to parse NBT data")
  ELSE IF is_litematic(f.root) THEN load_litematic(f.root)
  ELSE load_sponge(f.root)

\* ------------------------------------------------------------------------
\* save_schematic: the single-region (Sponge v3) encoder
\* ------------------------------------------------------------------------

MC_DATA_VERSION == 4671

\* Lines 611-622: the minimum and maximum corner of the block positions.
RECURSIVE bounding_box(_, _, _)
bounding_box(blocks, min, max) ==
  IF Len(blocks) = 0 THEN [min |-> min, max |-> max]
  ELSE LET pos == Head(blocks)[1]
       IN  bounding_box(Tail(blocks),
             <<Min2(min[1], pos[1]), Min2(min[2], pos[2]), Min2(min[3], pos[3])>>,
             <<Max2(max[1], pos[1]), Max2(max[2], pos[2]), Max2(max[3], pos[3])>>)

\* Faulty variant of build_palette: a state gets a new index at each entry.
RECURSIVE build_palette_per_entry(_, _)
build_palette_per_entry(blocks, palette) ==
  IF Len(blocks) = 0 THEN palette
  ELSE build_palette_per_entry(Tail(blocks), Append(palette, Head(blocks)[2]))

\* Lines 633-648: the state ids in palette index order, air first; the
\* palette index of a state is its place in this sequence minus one.
RECURSIVE build_palette(_, _)
build_palette(blocks, palette) ==
  IF Len(blocks) = 0 THEN palette
  ELSE build_palette(Tail(blocks),
         IF Head(blocks)[2] \in Range(palette) THEN palette
         ELSE Append(palette, Head(blocks)[2]))

palette_index(palette, state_id) ==
  (CHOOSE k \in 1..Len(palette) : palette[k] = state_id) - 1

\* Lines 655-658: block_map.get(pos), the state of the last entry at pos.
block_map_get(blocks, pos) ==
  LET at == {k \in 1..Len(blocks) : blocks[k][1] = pos}
  IN  IF at = {} THEN None
      ELSE Some(blocks[CHOOSE k \in at : \A j \in at : j <= k][2])

\* Faulty variant of grid_cell: the z and y axes are exchanged.
grid_cell_zy(blocks, palette, min, width, length, index) ==
  LET x == index % width
      y == (index \div width) % length
      z == index \div (width * length)
      state == block_map_get(blocks, <<x + min[1], y + min[2], z + min[3]>>)
  IN  IF state.some THEN palette_index(palette, state.v) ELSE 0

\* Lines 660-677: the palette index stored in grid cell index.
grid_cell(blocks, palette, min, width, length, index) ==
  LET x == index % width
      z == (index \div width) % length
      y == index \div (width * length)
      state == block_map_get(blocks, <<x + min[1], y + min[2], z + min[3]>>)
  IN  IF state.some THEN palette_index(palette, state.v) ELSE 0

\* Lines 683-686: the palette compound, its entries in the iteration order
\* of the palette_names HashMap (order lists the palette indices).
palette_compound(palette, order) ==
  [k \in 1..Len(order) |->
     <<IF order[k] = 0 THEN <<"minecraft:air">>
       ELSE build_block_state_string(palette[order[k] + 1]),
       TInt(order[k])>>]

\* Lines 611-702: the tag tree written for a non-empty clipboard.
schematic_root(blocks, order) ==
  LET box == bounding_box(blocks, blocks[1][1], blocks[1][1])
      min == box.min
      max == box.max
      width == AsU16(max[1] - min[1] + 1)
      height == AsU16(max[2] - min[2] + 1)
      length == AsU16(max[3] - min[3] + 1)
      palette == build_palette(blocks, <<air_state_id>>)
      total_blocks == width * height * length
      block_data == [c \in 1..total_blocks |->
                       grid_cell(blocks, palette, min, width, length, c - 1)]
      blocks_compound ==
        << <<"Palette", TCompound(palette_compound(palette, order))>>,
           <<"Data", TByteArray(encode_varints(block_data))>> >>
      schematic ==
        << <<"Version", TInt(3)>>,
           <<"DataVersion", TInt(MC_DATA_VERSION)>>,
           <<"Width", TShort(AsI16(width))>>,
           <<"Height", TShort(AsI16(height))>>,
           <<"Length", TShort(AsI16(length))>>,
           <<"Offset", TIntArray(min)>>,
           <<"Blocks", TCompound(blocks_compound)>> >>
  IN  << <<"Schematic", TCompound(schematic)>> >>

\* Lines 607-609: the guard of save_schematic.
clipboard_is_empty(blocks) == Len(blocks) = 0

\* Faulty variant of save_schematic: without the guard an empty clipboard is
\* written as an empty grid.
save_schematic_unguarded(old, blocks, order, io) ==
  IF io = "create_fails"
  THEN [file |-> old, res |-> Err("Failed to create schematic file")]
  ELSE IF io = "write_fails"
  THEN [file |-> Garbage, res |-> Err("Failed to write schematic")]
  ELSE IF Len(blocks) = 0
  THEN [file |-> NbtFile(<< <<"Schematic", TCompound(
                  << <<"Version", TInt(3)>>, <<"Width", TShort(0)>>,
                     <<"Height", TShort(0)>>, <<"Length", TShort(0)>> >>)>> >>),
        res |-> Saved]
  ELSE [file |-> NbtFile(schematic_root(blocks, order)), res |-> Saved]

\* save_schematic(path, clipboard), for the file old at path.  io is what
\* the file system does: "ok", "create_fails" (File::create fails, the path
\* is untouched) or "write_fails" (the created file is left incomplete).
\* The result is [file |-> the file at path afterwards, res |-> the return].
save_schematic(old, blocks, order, io) ==
  IF clipboard_is_empty(blocks)
  THEN [file |-> old, res |-> Err("Clipboard is empty")]
  ELSE IF io = "create_fails"
  THEN [file |-> old, res |-> Err("Failed to create schematic file")]
  ELSE IF io = "write_fails"
  THEN [file |-> Garbage, res |-> Err("Failed to write schematic")]
  ELSE [file |-> NbtFile(schematic_root(blocks, order)), res |-> Saved]

\* The iteration orders a HashMap of n palette entries can have.
PaletteOrders(n) ==
  {order \in [1..n -> 0..(n - 1)] : \A j, k \in 1..n : j # k => order[j] # order[k]}

IoOutcomes == {"ok", "create_fails", "write_fails"}

\* ------------------------------------------------------------------------
\* Bounds and inputs
\* ------------------------------------------------------------------------

\* The longest clipboard, the longest Data byte array, the largest declared
\* dimension and the most regions of the input files.
MaxClip == 2

MaxDataLen == 4

MaxDim == 2

MaxRegions == 2

\* All sequences over S of length at most n.
SeqUpTo(S, n) == UNION {[1..k -> S] : k \in 0..n}

\* Clipboard entries: positions around the origin and one far away (so that
\* an extent can leave 16 bits), states with and without properties, air.
ClipPositions == {<<1, 0, 1>>, <<-1, 1, 0>>, <<65536, 0, 0>>}

ClipStates == {0, 1, 5}

ClipInputs == SeqUpTo(ClipPositions \X ClipStates, MaxClip)

\* Palette texts of input files.
AirText == <<"minecraft:air">>

StoneText == <<"minecraft:stone">>

StairsText ==
  <<"minecraft:oak_stairs", "[", "half", "=", "top", ",", " ", "facing", "=", "south", "]">>

BadPropsText == <<"minecraft:oak_stairs", "[", "facing", "=", "up", "]">>

UnknownText == <<"minecraft:nope">>

MalformedText == <<"minecraft:stone", "]", "[">>

\* Palette compounds of single-region files (name -> index).  In the second
\* one index 1 is given twice, and index 0 is not air.
SpongePalettes ==
  << << <<AirText, TInt(0)>>, <<StoneText, TInt(1)>> >>,
     << <<StoneText, TInt(0)>>, <<AirText, TInt(1)>>, <<StairsText, TInt(1)>> >>,
     << <<UnknownText, TInt(0)>>, <<BadPropsText, TInt(1)>> >>,
     << <<AirText, TInt(0)>>, <<MalformedText, TInt(1)>> >> >>

\* Bytes of a Data array: the indices 0 and 1 and a continuation byte.
DataBytes == {0, 1, 129}

\* A value of six groups, one more than decode_varints accepts.
OverlongData == <<129, 129, 129, 129, 129, 1>>

DataInputs == SeqUpTo(DataBytes, MaxDataLen) \cup {OverlongData}

DimInputs == (0..MaxDim) \X (0..MaxDim) \X (0..MaxDim)

\* Dimensions of one layer.
FlatDimInputs == {d \in DimInputs : d[2] = 1}

\* A version 3 file: everything under Schematic, Palette and Data under Blocks.
SpongeV3(dims, offset, palette, data) ==
  << <<"Schematic", TCompound(
        << <<"Version", TInt(3)>>,
           <<"Width", TShort(dims[1])>>,
           <<"Height", TShort(dims[2])>>,
           <<"Length", TShort(dims[3])>> >>
        \o offset \o
        << <<"Blocks", TCompound(<< <<"Palette", TCompound(palette)>>,
                                    <<"Data", TByteArray(data)>> >>)>> >>)>> >>

\* A version 2 file: flat, with BlockData.
SpongeV2(dims, offset, palette, data) ==
  << <<"Version", TInt(2)>>,
     <<"Width", TShort(dims[1])>>,
     <<"Height", TShort(dims[2])>>,
     <<"Length", TShort(dims[3])>> >>
  \o offset \o
  << <<"Palette", TCompound(palette)>>, <<"BlockData", TByteArray(data)>> >>

OffsetTag == << <<"Offset", TIntArray(<<2, -1, 3>>)>> >>

\* An Offset array of fewer than three elements.
ShortOffsetTag == << <<"Offset", TIntArray(<<7>>)>> >>

SpongeInputs ==
  {SpongeV3(d, OffsetTag, SpongePalettes[1], b) : d \in DimInputs, b \in DataInputs}
  \cup {SpongeV3(d, <<>>, SpongePalettes[2], b) : d \in FlatDimInputs, b \in DataInputs}
  \cup {SpongeV2(d, <<>>, SpongePalettes[3], b) : d \in FlatDimInputs, b \in DataInputs}
  \cup {SpongeV2(d, OffsetTag, SpongePalettes[4], b) : d \in FlatDimInputs, b \in DataInputs}
  \cup {SpongeV3(<<2, 1, 2>>, o, SpongePalettes[1], <<1, 0, 0, 1>>) : o \in {<<>>, ShortOffsetTag}}

\* The tags without the one of this name.
Without(tags, name) ==
  LET Other(tag) == tag[1] # name IN SelectSeq(tags, Other)

\* The tags of a one-block version 3 file, as they lie under Schematic.
WrappedTags == SpongeV3(<<1, 1, 1>>, <<>>, SpongePalettes[1], <<1>>)[1][2].v

\* The tags of a one-block version 2 file.
FlatTags == SpongeV2(<<1, 1, 1>>, <<>>, SpongePalettes[1], <<1>>)

\* Single-region files with one required tag missing or of another type, with
\* the payload at the other version's place, and without a Version tag.
TagInputs ==
  {<< <<"Schematic", TCompound(Without(WrappedTags, n))>> >> :
      n \in {"Width", "Height", "Length", "Blocks", "Version"}}
  \cup {<< <<"Schematic", TCompound(Without(WrappedTags, "Blocks")
             \o << <<"Blocks", TCompound(Without(get_compound(WrappedTags, "Blocks").v, n))>> >>)>> >> :
          n \in {"Palette", "Data"}}
  \cup {Without(FlatTags, n) : n \in {"Width", "Height", "Length", "Palette", "BlockData", "Version"}}
  \cup { << <<"Schematic", TCompound(FlatTags)>> >>,
         << <<"Schematic", TCompound(Without(FlatTags, "Version"))>> >>,
         WrappedTags,
         Without(WrappedTags, "Version"),
         Without(FlatTags, "BlockData") \o << <<"BlockData", TIntArray(<<1>>)>> >>,
         Without(FlatTags, "Width") \o << <<"Width", TInt(1)>> >> }

\* A 64-bit word holding 4-bit entries, low entry first.
PackWord(entries) ==
  [k \in 1..64 |->
     IF (k - 1) \div 4 < Len(entries)
     THEN (entries[(k - 1) \div 4 + 1] \div 2^((k - 1) % 4)) % 2
     ELSE 0]

RegionPositions == {<<5, 0, 5>>, <<65540, 0, 5>>}

RegionSizes == {<<1, 1, 1>>, <<-2, 1, -2>>, <<0, 1, 1>>}

LitematicPalette == << <<AirText, TInt(0)>>, <<StoneText, TInt(1)>> >>

\* The palette and packed array of a region holding stone and air.
StoneAirContent ==
  << <<"BlockStatePalette", TCompound(LitematicPalette)>>,
     <<"BlockStates", TLongArray(<<PackWord(<<1, 0, 0, 1>>)>>)>> >>

\* What a region holds: stone and air, air only, no palette, no packed array.
RegionContents ==
  { StoneAirContent,
    << <<"BlockStatePalette", TCompound(LitematicPalette)>>,
       <<"BlockStates", TLongArray(<<PackWord(<<0, 0, 0, 0>>)>>)>> >>,
    << <<"BlockStates", TLongArray(<<PackWord(<<1, 0, 0, 1>>)>>)>> >>,
    << <<"BlockStatePalette", TCompound(LitematicPalette)>> >> }

Region(pos, size, content) ==
  TCompound(<< <<"Position", TIntArray(pos)>>, <<"Size", TIntArray(size)>> >> \o content)

\* Regions that fail or panic: a packed array that is too short, and a
\* palette with a malformed text.
FailingRegions ==
  { Region(<<5, 0, 5>>, <<-2, 1, -2>>,
      << <<"BlockStatePalette", TCompound(LitematicPalette)>>,
         <<"BlockStates", TLongArray(<<>>)>> >>),
    Region(<<0, 0, 0>>, <<1, 1, 1>>,
      << <<"BlockStatePalette", TCompound(<< <<AirText, TInt(0)>>, <<MalformedText, TInt(1)>> >>)>>,
         <<"BlockStates", TLongArray(<<PackWord(<<1>>)>>)>> >>) }

\* Regions of other shapes: a palette with an unknown and an unresolvable
\* text, lenient key spellings, no size, and a child of Regions that is no
\* compound.
SpecialRegions ==
  { Region(<<0, 0, 0>>, <<2, 1, 2>>,
      << <<"BlockStatePalette", TCompound(<< <<UnknownText, TInt(0)>>, <<BadPropsText, TInt(1)>>,
                                            <<StairsText, TInt(2)>> >>)>>,
         <<"BlockStates", TLongArray(<<PackWord(<<0, 1, 2, 7>>)>>)>> >>),
    TCompound(<< <<"Pos", TList(<<TInt(1), TInt(2), TInt(3)>>)>>,
                 <<"width", TInt(1)>>, <<"size_y", TInt(2)>>, <<"length", TInt(1)>>,
                 <<"BlockStatePalette", TCompound(LitematicPalette)>>,
                 <<"BlockStates", TLongArray(<<PackWord(<<1, 1>>)>>)>> >>),
    TCompound(<< <<"x", TInt(1)>>, <<"y", TInt(0)>>, <<"z", TInt(1)>>,
                 <<"BlockStatePalette", TCompound(LitematicPalette)>>,
                 <<"BlockStates", TLongArray(<<PackWord(<<1>>)>>)>> >>),
    TList(<<>>) }

RegionInputs ==
  {Region(p, sz, c) : p \in RegionPositions, sz \in RegionSizes, c \in RegionContents}
  \cup FailingRegions

\* A multi-region file: its regions under Regions, with or without the
\* Metadata compound that supplies a missing size.
RegionNames == <<"a", "b", "c", "d">>

Litematic(regions, metadata) ==
  << <<"Regions", TCompound([k \in 1..Len(regions) |-> <<RegionNames[k], regions[k]>>])>> >>
  \o metadata

MetadataTag ==
  << <<"Metadata", TCompound(<< <<"EnclosureWidth", TInt(1)>>, <<"EnclosureHeight", TInt(1)>>,
                                <<"EnclosureLength", TInt(1)>> >>)>> >>

\* Every sequence of the plain and the failing regions; a special region
\* alone, before a plain one, and with the Metadata compound.
LitematicInputs ==
  {Litematic(rs, <<>>) : rs \in SeqUpTo(RegionInputs, MaxRegions)}
  \cup {Litematic(<<r>>, <<>>) : r \in SpecialRegions}
  \cup {Litematic(<<r, Region(<<5, 0, 5>>, <<1, 1, 1>>, StoneAirContent)>>, <<>>) : r \in SpecialRegions}
  \cup {Litematic(<<r>>, MetadataTag) : r \in SpecialRegions}

\* Roots that are neither: both wrappers around a good single-region file;
\* an empty Regions compound beside the tags of a good flat file; a good
\* multi-region file beside an empty Schematic compound; nothing at all.
OtherInputs ==
  { << <<"Regions", TCompound(<<>>)>> >> \o SpongeV3(<<1, 1, 1>>, <<>>, SpongePalettes[1], <<1>>),
    << <<"Regions", TCompound(<<>>)>> >> \o SpongeV2(<<1, 1, 1>>, <<>>, SpongePalettes[1], <<1>>),
    Litematic(<<Region(<<5, 0, 5>>, <<1, 1, 1>>, StoneAirContent)>>, <<>>)
      \o << <<"Schematic", TCompound(<<>>)>> >>,
    <<>> }

\* ------------------------------------------------------------------------
\* State machine
\* ------------------------------------------------------------------------

\* The return value of the last operation, with the operation that made it.
\* No call of a codec function: its arguments and what it returned.
NoArgs ==
  [fn |-> "none", values |-> <<>>, data |-> <<>>, expected_count |-> 0,
   longs |-> <<>>, block_count |-> 0, bits_per_entry |-> 0,
   overflow_checks |-> FALSE, palette_len |-> 0, text |-> <<>>]

NoRet ==
  [fn |-> "none", st |-> "none", msg |-> "", vals |-> <<>>, bytes |-> <<>>, bits |-> 0,
   name |-> <<>>, props |-> <<>>]

\* ------------------------------------------------------------------------
\* Players, the world and the commands in progress (state.rs, commands/)
\* ------------------------------------------------------------------------

\* MAX_BLOCKS of state.rs is 100_000.  The comparison against it is kept and
\* the number is scaled to the modelled world: a selection of 3 x 3 x 3
\* blocks passes, one of 4 x 3 x 3 blocks does not.
MAX_BLOCKS == 27

Players == {"p1", "p2"}

\* The blocks of the world that commands reach.
WorldPositions == (0..3) \X (0..2) \X (0..2)

\* Stone at two places, one of them inside the 3 x 3 x 3 selection; air
\* everywhere else.
InitialWorld ==
  [pos \in WorldPositions |-> IF pos \in {<<0, 0, 0>>, <<1, 1, 1>>} THEN 1 ELSE air_state_id]

\* Option<BlockPos> and Option<Vec<(BlockPos, u16)>> without a value.
NonePos == [some |-> FALSE, v |-> <<0, 0, 0>>]

NoneBlocks == [some |-> FALSE, v |-> <<>>]

\* PlayerState::default(); known tells whether PLAYER_DATA has an entry for
\* the player.
DefaultPlayerState ==
  [known |-> FALSE, pos1 |-> NonePos, pos2 |-> NonePos, clipboard |-> NoneBlocks,
   undo_data |-> NoneBlocks]

\* A player with no command in progress.  todo holds the blocks the loop of
\* the command still visits, i the one it is at, phase the await it is
\* suspended at.  issued counts the commands of the player; replaced, before
\* and alone record what the writes of the command replaced, the world when
\* the last edit began, and whether only this player wrote since.
IdleTask ==
  [cmd |-> "none", phase |-> "idle", st |-> "none", msg |-> "", todo |-> <<>>, i |-> 0,
   from |-> 0, undo_blocks |-> <<>>, blocks |-> <<>>, at |-> <<0, 0, 0>>, count |-> 0,
   issued |-> 0, replaced |-> <<>>, before |-> InitialWorld, alone |-> TRUE]

NoResult == [op |-> "none"] @@ Saved

\* A stored schematic file meets an empty clipboard, or a clipboard meets a
\* path that holds no file yet.
Init ==
  /\ result = NoResult
  /\ args = NoArgs
  /\ ret = NoRet
  /\ \/ /\ clipboard = <<>>
        /\ \/ file \in {NoFile, Garbage}
           \/ \E r \in SpongeInputs : file = NbtFile(r)
           \/ \E r \in TagInputs : file = NbtFile(r)
           \/ \E r \in LitematicInputs : file = NbtFile(r)
           \/ \E r \in OtherInputs : file = NbtFile(r)
     \/ clipboard \in ClipInputs /\ file = NoFile
  /\ world = InitialWorld
  /\ players = [p \in Players |-> DefaultPlayerState]
  /\ tasks = [p \in Players |-> IdleTask]

\* save_schematic(path, clipboard), as /we schem save calls it.
SaveSchematic ==
  \E order \in PaletteOrders(Len(build_palette(clipboard, <<air_state_id>>))),
     io \in IoOutcomes :
    LET saved == save_schematic(file, clipboard, order, io)
    IN  /\ file' = saved.file
        /\ result' = [op |-> "save"] @@ saved.res
        /\ UNCHANGED <<clipboard, args, ret, world, players, tasks>>

\* load_schematic(path), as /we schem load calls it.
LoadSchematic ==
  /\ result' = [op |-> "load"] @@ load_schematic(file)
  /\ UNCHANGED <<clipboard, file, args, ret, world, players, tasks>>

Next == SaveSchematic \/ LoadSchematic

Spec == Init /\ [][Next]_vars

\* ------------------------------------------------------------------------
\* The codec functions on their own: varints, packed long arrays, widths
\* ------------------------------------------------------------------------

MaxValues == 2

MaxBytes == 5

MaxCount == 3

MaxWords == 2

MaxPaletteLen == 300

MaxTokens == 4

MaxI32 == (2^30 - 1) + 2^30

MinI32 == (-(2^30)) - 2^30

\* Values of one to five groups, and negative ones.
VarintValues == {0, 1, 127, 128, 16384, MaxI32, -1, MinI32}

ValueInputs ==
  SeqUpTo(VarintValues, MaxValues) \cup {<<0, 127, 128, 16384, MaxI32>>}

\* Bytes that end a value (1, 127) and one that continues it (129).
VarintBytes == {1, 127, 129}

ByteInputs == SeqUpTo(VarintBytes, MaxBytes)

\* The word with exactly these bits set (bit 0 is the low bit).
WordOf(bits) == [k \in 1..64 |-> IF (k - 1) \in bits THEN 1 ELSE 0]

WordInputs ==
  { WordOf({}), WordOf(0..63), WordOf({0, 12, 35}), WordOf({k \in 0..63 : k % 3 = 1}) }

LongsInputs == SeqUpTo(WordInputs, MaxWords)

\* bits_per_entry is a u8: every width up to 64, and two widths above.
BitsInputs == (0..65) \cup {255}

\* Block-state texts: a piece of a name, key or value, and the characters
\* the parser looks for.
TextTokens == {"a", "[", "]", ",", "=", " "}

TextInputs ==
  SeqUpTo(TextTokens, MaxTokens)
  \cup {<<"minecraft:oak_stairs", "[", "facing", "=", "north", ",", "half", "=", "bottom", "]">>,
        <<"a", "[", "a", "=", "a", "]">>,
        <<"a", "[", "a", "=", "a", ",", " ", "a", "=", "a", "]">>,
        StoneText}

CallInit ==
  /\ clipboard = <<>>
  /\ file = NoFile
  /\ result = NoResult
  /\ \/ \E t \in TextInputs :
          args = [NoArgs EXCEPT !.fn = "parse_block_state_string", !.text = t]
     \/ \E v \in ValueInputs : args = [NoArgs EXCEPT !.fn = "encode_varints", !.values = v]
     \/ \E d \in ByteInputs, n \in 0..MaxCount :
          args = [NoArgs EXCEPT !.fn = "decode_varints", !.data = d, !.expected_count = n]
     \/ \E l \in LongsInputs, n \in 0..MaxCount, b \in BitsInputs, c \in BOOLEAN :
          args = [NoArgs EXCEPT !.fn = "unpack_packed_long_array", !.longs = l,
                                !.block_count = n, !.bits_per_entry = b,
                                !.overflow_checks = c]
     \/ \E n \in 0..MaxPaletteLen :
          args = [NoArgs EXCEPT !.fn = "bits_for_palette_size", !.palette_len = n]
  /\ ret = NoRet
  /\ world = InitialWorld
  /\ players = [p \in Players |-> DefaultPlayerState]
  /\ tasks = [p \in Players |-> IdleTask]

\* encode_varints(values).
EncodeVarints ==
  /\ args.fn = "encode_varints"
  /\ ret = NoRet
  /\ ret' = [NoRet EXCEPT !.fn = "encode_varints", !.st = "ok",
                          !.bytes = encode_varints(args.values)]
  /\ UNCHANGED <<clipboard, file, result, args, world, players, tasks>>

\* decode_varints on the bytes encode_varints returned, for as many values
\* as were encoded.
DecodeEncoded ==
  /\ ret.fn = "encode_varints"
  /\ LET decoded == decode_varints(ret.bytes, Len(args.values))
     IN  ret' = [ret EXCEPT !.fn = "decode_varints", !.st = decoded.st,
                            !.msg = decoded.msg, !.vals = decoded.vals]
  /\ UNCHANGED <<clipboard, file, result, args, world, players, tasks>>

\* decode_varints(data, expected_count).
DecodeVarints ==
  /\ args.fn = "decode_varints"
  /\ ret = NoRet
  /\ LET decoded == decode_varints(args.data, args.expected_count)
     IN  ret' = [NoRet EXCEPT !.fn = "decode_varints", !.st = decoded.st,
                              !.msg = decoded.msg, !.vals = decoded.vals]
  /\ UNCHANGED <<clipboard, file, result, args, world, players, tasks>>

\* unpack_packed_long_array(longs, block_count, bits_per_entry).
UnpackPackedLongArray ==
  /\ args.fn = "unpack_packed_long_array"
  /\ ret = NoRet
  /\ LET unpacked == unpack_packed_long_array(args.longs, args.block_count,
                                              args.bits_per_entry, args.overflow_checks)
     IN  ret' = [NoRet EXCEPT !.fn = "unpack_packed_long_array", !.st = unpacked.st,
                              !.msg = unpacked.msg, !.vals = unpacked.vals]
  /\ UNCHANGED <<clipboard, file, result, args, world, players, tasks>>

\* bits_for_palette_size(palette_len).
BitsForPaletteSize ==
  /\ args.fn = "bits_for_palette_size"
  /\ ret = NoRet
  /\ ret' = [NoRet EXCEPT !.fn = "bits_for_palette_size", !.st = "ok",
                          !.bits = bits_for_palette_size(args.palette_len)]
  /\ UNCHANGED <<clipboard, file, result, args, world, players, tasks>>

\* parse_block_state_string(s).
ParseBlockStateString ==
  /\ args.fn = "parse_block_state_string"
  /\ ret = NoRet
  /\ LET parsed == parse_block_state_string(args.text)
     IN  ret' = [NoRet EXCEPT !.fn = "parse_block_state_string",
                              !.st = IF parsed.panic THEN "panic" ELSE "ok",
                              !.name = IF parsed.panic THEN <<>> ELSE parsed.name,
                              !.props = parsed.props]
  /\ UNCHANGED <<clipboard, file, result, args, world, players, tasks>>

CallNext ==
  \/ EncodeVarints \/ DecodeEncoded \/ DecodeVarints \/ UnpackPackedLongArray
  \/ BitsForPaletteSize \/ ParseBlockStateString

CallSpec == CallInit /\ [][CallNext]_vars

\* ------------------------------------------------------------------------
\* The selection (state.rs)
\* ------------------------------------------------------------------------

NoSelection(msg) == [st |-> "err", msg |-> msg, min |-> <<0, 0, 0>>, max |-> <<0, 0, 0>>]

\* get_selection(player_id): the corners, normalised to a least and a
\* greatest corner.
get_selection(state) ==
  IF ~state.known
  THEN NoSelection("No selection set. Use //pos1 and //pos2 first.")
  ELSE IF ~state.pos1.some
  THEN NoSelection("Position 1 not set. Use //pos1 first.")
  ELSE IF ~state.pos2.some
  THEN NoSelection("Position 2 not set. Use //pos2 first.")
  ELSE [st |-> "ok", msg |-> "",
        min |-> [k \in 1..3 |-> Min2(state.pos1.v[k], state.pos2.v[k])],
        max |-> [k \in 1..3 |-> Max2(state.pos1.v[k], state.pos2.v[k])]]

\* selection_volume(min, max).
selection_volume(min, max) ==
  (max[1] - min[1] + 1) * (max[2] - min[2] + 1) * (max[3] - min[3] + 1)

\* Faulty variant of check_selection_size: every selection is accepted.
check_selection_size_unchecked(min, max) == [st |-> "ok", msg |-> ""]

\* check_selection_size(min, max).
check_selection_size(min, max) ==
  IF selection_volume(min, max) > MAX_BLOCKS
  THEN [st |-> "err",
        msg |-> "Selection too large (" \o ToString(selection_volume(min, max))
                \o " blocks). Maximum is " \o ToString(MAX_BLOCKS) \o "."]
  ELSE [st |-> "ok", msg |-> ""]

\* The positions of the selection in the order of the loops: x outermost, z
\* innermost.
selection_positions(min, max) ==
  LET dy == max[2] - min[2] + 1
      dz == max[3] - min[3] + 1
  IN  [k \in 1..selection_volume(min, max) |->
         << min[1] + ((k - 1) \div (dy * dz)),
            min[2] + (((k - 1) \div dz) % dy),
            min[3] + ((k - 1) % dz) >>]

\* is_wall of WallsExecutor: on one of the four vertical faces.
is_wall(pos, min, max) ==
  pos[1] = min[1] \/ pos[1] = max[1] \/ pos[3] = min[3] \/ pos[3] = max[3]

\* is_interior of HollowExecutor: strictly inside on all three axes.
is_interior(pos, min, max) ==
  /\ pos[1] > min[1] /\ pos[1] < max[1]
  /\ pos[2] > min[2] /\ pos[2] < max[2]
  /\ pos[3] > min[3] /\ pos[3] < max[3]

\* The positions at which the loop of a command reads the world.
visited(cmd, min, max) ==
  LET Reached(pos) ==
        CASE cmd = "walls" -> is_wall(pos, min, max)
          [] cmd = "hollow" -> is_interior(pos, min, max)
          [] OTHER -> TRUE
  IN  SelectSeq(selection_positions(min, max), Reached)

\* ------------------------------------------------------------------------
\* Commands as tasks that yield at every world read and write (commands/)
\* ------------------------------------------------------------------------

\* The commands that write blocks and store an undo record.
EditCommands == {"set", "replace", "walls", "clear", "hollow", "paste"}

\* The await at which an iteration of the loop of a command begins.
first_phase(cmd) ==
  CASE cmd = "replace" -> "get_block"
    [] cmd = "undo" -> "set_block_state"
    [] OTHER -> "get_block_state_id"

\* A command that passed its checks, at the first await of its loop or, with
\* nothing to visit, past the loop.
start(t, cmd, todo, from, at, w) ==
  [t EXCEPT !.cmd = cmd, !.st = "none", !.msg = "", !.todo = todo,
            !.i = IF todo = <<>> THEN 0 ELSE 1,
            !.phase = IF todo = <<>> THEN "done" ELSE first_phase(cmd),
            !.from = from, !.at = at, !.undo_blocks = <<>>, !.blocks = <<>>, !.count = 0,
            !.issued = @ + 1, !.replaced = <<>>,
            !.before = IF cmd \in EditCommands THEN w ELSE @,
            !.alone = IF cmd \in EditCommands THEN TRUE ELSE @]

\* A command that returned an error before its loop.
failed(t, cmd, msg) ==
  [t EXCEPT !.cmd = cmd, !.st = "err", !.msg = msg, !.todo = <<>>, !.i = 0, !.phase = "idle",
            !.undo_blocks = <<>>, !.blocks = <<>>, !.count = 0, !.issued = @ + 1,
            !.replaced = <<>>]

\* The end of an iteration: the next one, or past the loop.
advance(t) ==
  IF t.i < Len(t.todo)
  THEN [t EXCEPT !.i = @ + 1, !.phase = first_phase(t.cmd)]
  ELSE [t EXCEPT !.phase = "done"]

\* The await a command is suspended at completes against world w, and the
\* command runs to its next await.
resume(t, w) ==
  LET pos == t.todo[t.i][1]
      new == t.todo[t.i][2]
      old == w[pos]
  IN  CASE t.phase = "get_block" ->
             [task |-> IF Block_from_state_id(old) = t.from
                       THEN [t EXCEPT !.phase = "get_block_state_id"]
                       ELSE advance(t),
              world |-> w]
        [] t.phase = "get_block_state_id" ->
             [task |-> IF t.cmd = "copy"
                       THEN advance([t EXCEPT !.blocks =
                                       Append(@, << [k \in 1..3 |-> pos[k] - t.at[k]], old >>)])
                       ELSE IF t.cmd \in {"clear", "hollow"} /\ old = air_state_id
                       THEN advance(t)
                       ELSE [t EXCEPT !.undo_blocks = Append(@, <<pos, old>>),
                                      !.phase = "set_block_state"],
              world |-> w]
        [] t.phase = "set_block_state" ->
             [task |-> advance([t EXCEPT !.count = @ + 1, !.replaced = Append(@, old)]),
              world |-> [w EXCEPT ![pos] = new]]

\* Faulty variant of undo_taken: the record stays with the player.
undo_kept(state) == state

\* undo_data.take() of UndoExecutor.
undo_taken(state) == [state EXCEPT !.undo_data = NoneBlocks]

\* What a command stores under the PLAYER_DATA lock after its loop.
store(state, t) ==
  CASE t.cmd = "pos1" -> [state EXCEPT !.known = TRUE, !.pos1 = Some(t.at)]
    [] t.cmd = "pos2" -> [state EXCEPT !.known = TRUE, !.pos2 = Some(t.at)]
    [] t.cmd \in {"copy", "schem load"} ->
         [state EXCEPT !.known = TRUE, !.clipboard = Some(t.blocks)]
    [] t.cmd = "undo" -> state
    [] OTHER -> [state EXCEPT !.known = TRUE, !.undo_data = Some(t.undo_blocks)]

\* Bound on the commands issued in one behaviour.
MaxCommands == 2

Issued == tasks["p1"].issued + tasks["p2"].issued

\* Where the players stand when they issue commands, the corners they mark
\* and the files they load: p1 marks 3 x 3 x 3 and 4 x 3 x 3 blocks and loads
\* a file of 36 blocks, p2 marks two blocks and loads a file of two regions
\* at the same place.
Pos1Inputs(p) == IF p = "p1" THEN {<<0, 0, 0>>} ELSE {<<1, 0, 0>>}

Pos2Inputs(p) == IF p = "p1" THEN {<<2, 2, 2>>, <<3, 2, 2>>} ELSE {<<0, 0, 0>>}

StandInputs(p) == IF p = "p1" THEN {<<0, 0, 0>>} ELSE {<<1, 0, 0>>}

LargeFile ==
  NbtFile(SpongeV3(<<4, 3, 3>>, <<>>, SpongePalettes[2], [k \in 1..36 |-> 0]))

OverlappingFile ==
  NbtFile(Litematic(<< Region(<<5, 0, 5>>, <<1, 1, 1>>, StoneAirContent),
                       Region(<<5, 0, 5>>, <<1, 1, 1>>, StoneAirContent) >>, <<>>))

\* The schematics directory: file names and what they hold.
SchemFiles == [large |-> LargeFile, overlapping |-> OverlappingFile, garbage |-> Garbage]

SchemInputs(p) == IF p = "p1" THEN {"large", "garbage"} ELSE {"overlapping", "garbage"}

\* schematic_to_clipboard(data).
schematic_to_clipboard(data) == data.blocks

\* The entries of the players when the first command is issued: nobody has
\* an entry; both have marked two blocks, with one block in common; both
\* have loaded a file, and the first has marked 4 x 3 x 3 blocks.
PlayerInputs ==
  { [p \in Players |-> DefaultPlayerState],
    [p \in Players |->
       [DefaultPlayerState EXCEPT
          !.known = TRUE,
          !.pos1 = Some(IF p = "p1" THEN <<0, 0, 0>> ELSE <<1, 0, 0>>),
          !.pos2 = Some(IF p = "p1" THEN <<0, 1, 0>> ELSE <<0, 0, 0>>)]],
    [p \in Players |->
       [DefaultPlayerState EXCEPT
          !.known = TRUE,
          !.pos1 = Some(IF p = "p1" THEN <<0, 0, 0>> ELSE <<1, 0, 0>>),
          !.pos2 = Some(IF p = "p1" THEN <<3, 2, 2>> ELSE <<0, 0, 0>>),
          !.clipboard =
             Some(schematic_to_clipboard(
                    load_schematic(SchemFiles[IF p = "p1" THEN "large" ELSE "overlapping"])))]] }

\* The blocks commands place.
stone == Block_from_name(<<"minecraft:stone">>)

oak_stairs == Block_from_name(<<"minecraft:oak_stairs">>)

\* The state after a step of the command of player p: its task, the world,
\* and the entry of the player, into which a command past its loop stores
\* its result before it returns.
Settle(p, t, w, state) ==
  /\ tasks' = [q \in Players |->
                 IF q # p THEN [tasks[q] EXCEPT !.alone = @ /\ w = world]
                 ELSE IF t.phase = "done" THEN [t EXCEPT !.phase = "idle", !.st = "ok"]
                 ELSE t]
  /\ world' = w
  /\ players' = [players EXCEPT ![p] = IF t.phase = "done" THEN store(state, t) ELSE state]
  /\ UNCHANGED <<clipboard, file, result, args, ret>>

\* The common beginning of copy, set, replace, walls, clear and hollow:
\* get_selection, check_selection_size, then the loop.
BeginOnSelection(p, cmd, state_id, from, at) ==
  \E sel \in {get_selection(players[p])} :
    IF sel.st = "err" THEN Settle(p, failed(tasks[p], cmd, sel.msg), world, players[p])
    ELSE \E size \in {check_selection_size(sel.min, sel.max)} :
           IF size.st = "err"
           THEN Settle(p, failed(tasks[p], cmd, size.msg), world, players[p])
           ELSE \E cells \in {visited(cmd, sel.min, sel.max)} :
                  Settle(p, start(tasks[p], cmd,
                                  [k \in 1..Len(cells) |-> <<cells[k], state_id>>],
                                  from, at, world),
                         world, players[p])

\* //pos1 and //pos2 (commands/selection.rs).
Pos1 ==
  \E p \in Players : \E at \in Pos1Inputs(p) :
    /\ tasks[p].phase = "idle"
    /\ Issued < MaxCommands
    /\ Settle(p, start(tasks[p], "pos1", <<>>, 0, at, world), world, players[p])

Pos2 ==
  \E p \in Players : \E at \in Pos2Inputs(p) :
    /\ tasks[p].phase = "idle"
    /\ Issued < MaxCommands
    /\ Settle(p, start(tasks[p], "pos2", <<>>, 0, at, world), world, players[p])

\* /we schem load (commands/schematic.rs): the blocks of the document become
\* the clipboard of the player.  Files are loaded before any other command.
SchemLoad ==
  \E p \in Players : \E f \in SchemInputs(p) :
    /\ tasks[p].phase = "idle"
    /\ Issued = 0
    /\ Issued < MaxCommands
    /\ \E data \in {load_schematic(SchemFiles[f])} :
         IF data.st = "ok"
         THEN Settle(p, [start(tasks[p], "schem load", <<>>, 0, <<0, 0, 0>>, world)
                           EXCEPT !.blocks = schematic_to_clipboard(data)],
                     world, players[p])
         ELSE Settle(p, failed(tasks[p], "schem load", "Failed to load schematic: " \o data.msg),
                     world, players[p])

\* //copy (commands/clipboard.rs).
Copy ==
  \E p \in Players : \E at \in StandInputs(p) :
    /\ tasks[p].phase = "idle"
    /\ Issued < MaxCommands
    /\ BeginOnSelection(p, "copy", 0, 0, at)

\* //set, //replace, //walls, //clear and //hollow (commands/region.rs).
Set ==
  \E p \in Players :
    /\ tasks[p].phase = "idle"
    /\ Issued < MaxCommands
    /\ BeginOnSelection(p, "set", Registry[stone].default, 0, <<0, 0, 0>>)

Replace ==
  \E p \in Players :
    /\ tasks[p].phase = "idle"
    /\ Issued < MaxCommands
    /\ BeginOnSelection(p, "replace", Registry[oak_stairs].default, stone, <<0, 0, 0>>)

Walls ==
  \E p \in Players :
    /\ tasks[p].phase = "idle"
    /\ Issued < MaxCommands
    /\ BeginOnSelection(p, "walls", Registry[stone].default, 0, <<0, 0, 0>>)

Clear ==
  \E p \in Players :
    /\ tasks[p].phase = "idle"
    /\ Issued < MaxCommands
    /\ BeginOnSelection(p, "clear", air_state_id, 0, <<0, 0, 0>>)

Hollow ==
  \E p \in Players :
    /\ tasks[p].phase = "idle"
    /\ Issued < MaxCommands
    /\ BeginOnSelection(p, "hollow", air_state_id, 0, <<0, 0, 0>>)

\* //paste (commands/clipboard.rs): every clipboard entry is placed at the
\* position of the player plus its offset.
Paste ==
  \E p \in Players : \E at \in StandInputs(p) :
    LET blocks == players[p].clipboard.v
        todo == [k \in 1..Len(blocks) |->
                   << [j \in 1..3 |-> at[j] + blocks[k][1][j]], blocks[k][2] >>]
    IN  /\ tasks[p].phase = "idle"
        /\ Issued < MaxCommands
        /\ \A k \in 1..Len(todo) : todo[k][1] \in WorldPositions
        /\ IF ~players[p].known \/ ~players[p].clipboard.some
           THEN Settle(p, failed(tasks[p], "paste", "Clipboard is empty. Use //copy first."),
                       world, players[p])
           ELSE Settle(p, start(tasks[p], "paste", todo, 0, at, world), world, players[p])

\* //undo (commands/history.rs): the record is taken, then written back
\* entry by entry from the first to the last.
Undo ==
  \E p \in Players :
    /\ tasks[p].phase = "idle"
    /\ Issued < MaxCommands
    /\ IF ~players[p].known \/ ~players[p].undo_data.some
       THEN Settle(p, failed(tasks[p], "undo", "Nothing to undo."), world, players[p])
       ELSE Settle(p, start(tasks[p], "undo", players[p].undo_data.v, 0, <<0, 0, 0>>, world),
                   world, undo_taken(players[p]))

\* A suspended command is resumed: one world read or one world write.
Resume ==
  \E p \in Players :
    /\ tasks[p].phase # "idle"
    /\ \E r \in {resume(tasks[p], world)} : Settle(p, r.task, r.world, players[p])

EditInit ==
  /\ clipboard = <<>>
  /\ file = NoFile
  /\ result = NoResult
  /\ args = NoArgs
  /\ ret = NoRet
  /\ world = InitialWorld
  /\ players \in PlayerInputs
  /\ tasks = [p \in Players |-> IdleTask]

EditNext ==
  \/ Pos1 \/ Pos2 \/ SchemLoad \/ Copy \/ Set \/ Replace \/ Walls \/ Clear \/ Hollow
  \/ Paste \/ Undo \/ Resume

EditSpec == EditInit /\ [][EditNext]_vars

\* ------------------------------------------------------------------------
\* Properties
\* ------------------------------------------------------------------------

\* The last operation was a load; result is then load_schematic(file).
Loaded == result.op = "load"

\* The last operation was a load that returned a document.
LoadedDoc == Loaded /\ result.st = "ok"

\* The loaded file was a tag tree decoded by the single-region decoder.
LoadedSponge == Loaded /\ file.kind = "nbt" /\ ~is_litematic(file.root)

\* The loaded file was a tag tree decoded by the multi-region decoder.
LoadedLitematic == Loaded /\ file.kind = "nbt" /\ is_litematic(file.root)

\* The file was written by a successful save of the clipboard and then
\* loaded (with a clipboard the path starts without a file).
SavedAndLoaded == clipboard # <<>> /\ file.kind = "nbt" /\ Loaded

NoAirEntry(blocks) == \A e \in Range(blocks) : e[2] # air_state_id

\* Every extent of the bounding box is at most 65535.
FitsU16(blocks) ==
  \A a, b \in Range(blocks) : \A k \in 1..3 : a[1][k] - b[1][k] + 1 <= 65535

\* No position is listed with two different states.
SinglyListed(blocks) ==
  \A a, b \in Range(blocks) : a[1] = b[1] => a[2] = b[2]

\* C1 as stated: for every non-empty block list without an air entry whose
\* bounding box fits 16-bit dimensions, saving and loading gives a document
\* whose set of (position, state) pairs equals the input's set.
C1_RoundTripAnyList ==
  (SavedAndLoaded /\ NoAirEntry(clipboard) /\ FitsU16(clipboard))
    => (result.st = "ok" /\ Range(result.blocks) = Range(clipboard))

\* C1 amended: the same for the lists in which no position is listed with two
\* different states.
C1_RoundTrip ==
  (SavedAndLoaded /\ NoAirEntry(clipboard) /\ FitsU16(clipboard) /\ SinglyListed(clipboard))
    => (result.st = "ok" /\ Range(result.blocks) = Range(clipboard))

C1_Witness ==
  /\ SavedAndLoaded /\ NoAirEntry(clipboard) /\ FitsU16(clipboard) /\ SinglyListed(clipboard)
  /\ Cardinality({e[1] : e \in Range(clipboard)}) = 2
  /\ result.st = "ok"
  /\ \E e \in Range(result.blocks) : e[2] = 5

\* pos lies in the box of the given dimensions whose minimum corner is origin.
InBox(pos, origin, width, height, length) ==
  /\ origin[1] <= pos[1] /\ pos[1] <= origin[1] + width - 1
  /\ origin[2] <= pos[2] /\ pos[2] <= origin[2] + height - 1
  /\ origin[3] <= pos[3] /\ pos[3] <= origin[3] + length - 1

C3_NoAirEntries ==
  LoadedDoc => \A e \in Range(result.blocks) : e[2] # air_state_id

C3_Witness ==
  /\ LoadedDoc
  /\ Len(result.blocks) > 0
  /\ Len(result.blocks) < result.width * result.height * result.length

\* C4 as stated: every returned document has width, height and length of at
\* least 1.
C4_DimensionsPositive ==
  LoadedDoc => (result.width >= 1 /\ result.height >= 1 /\ result.length >= 1)

\* What a single-region file declares, read off the loaded file's tags.
FileDataRoot == UnwrapOr(get_compound(file.root, "Schematic"), file.root)

FileVersion ==
  UnwrapOr(get_int(FileDataRoot, "Version"),
           IF get_compound(file.root, "Schematic").some THEN 3 ELSE 2)

FilePayload ==
  IF FileVersion >= 3 THEN UnwrapOr(get_compound(FileDataRoot, "Blocks"), <<>>)
  ELSE FileDataRoot

FilePalette == get_compound(FilePayload, "Palette")

FileData ==
  get_byte_array(FilePayload, IF FileVersion >= 3 THEN "Data" ELSE "BlockData")

\* Width * Height * Length as declared.
FileVolume ==
  AsU16(UnwrapOr(get_short(FileDataRoot, "Width"), 0))
  * AsU16(UnwrapOr(get_short(FileDataRoot, "Height"), 0))
  * AsU16(UnwrapOr(get_short(FileDataRoot, "Length"), 0))

\* A single-region file with all its required tags was loaded.
LoadedWholeSponge ==
  /\ LoadedSponge
  /\ get_short(FileDataRoot, "Width").some
  /\ get_short(FileDataRoot, "Height").some
  /\ get_short(FileDataRoot, "Length").some
  /\ FilePalette.some
  /\ FileData.some

\* The number of complete varint values in data: the bytes that end a value.
CompleteValues(data) == Cardinality({k \in 1..Len(data) : data[k] < 128})

\* Some value of data runs over five continuation bytes.
Overlong(data) ==
  \E k \in 1..(Len(data) - 4) : \A j \in k..(k + 4) : data[j] >= 128

\* data stops inside a value.
EndsInsideValue(data) == Len(data) > 0 /\ data[Len(data)] >= 128

\* C5 as stated: when Data holds fewer complete varint values than Width *
\* Height * Length, the decode returns the count-mismatch error, or the
\* truncation error if the bytes end inside a value, and no document.
C5_MismatchOrTruncation ==
  (LoadedWholeSponge /\ CompleteValues(FileData.v) < FileVolume)
    => /\ result.st = "err"
       /\ result.msg = IF EndsInsideValue(FileData.v)
                       THEN "Unexpected end of varint data"
                       ELSE "Block data count mismatch"

\* C5 amended: such a decode returns an error and no document: the size error
\* when a value runs over five bytes, else the truncation error when Data
\* ends inside a value, else the count mismatch.
C5_FewerIndicesFail ==
  (LoadedWholeSponge /\ CompleteValues(FileData.v) < FileVolume)
    => /\ result.st = "err"
       /\ result.msg = IF Overlong(FileData.v) THEN "Varint too large"
                       ELSE IF EndsInsideValue(FileData.v)
                       THEN "Unexpected end of varint data"
                       ELSE "Block data count mismatch"

C5_Witness ==
  /\ LoadedWholeSponge
  /\ CompleteValues(FileData.v) < FileVolume
  /\ CompleteValues(FileData.v) > 0
  /\ result.msg = "Block data count mismatch"

\* The place of the n-th value's last byte in data.
NthValueEnd(data, n) ==
  CHOOSE k \in 1..Len(data) :
    data[k] < 128 /\ Cardinality({j \in 1..k : data[j] < 128}) = n

\* data begins with n complete values of at most five bytes each.
BeginsWithValues(data, n) ==
  \/ n = 0
  \/ /\ CompleteValues(data) >= n
     /\ ~Overlong(SubSeq(data, 1, NthValueEnd(data, n)))

\* C6 as stated: the decode succeeds only when Data encodes exactly
\* Width * Height * Length indices, more being an error like fewer.
C6_ExactCount ==
  (LoadedWholeSponge /\ result.st = "ok")
    => (CompleteValues(FileData.v) = FileVolume /\ ~EndsInsideValue(FileData.v))

\* What the decoder does instead: it succeeds only when Data begins with
\* Width * Height * Length complete indices, and bytes after these are never
\* an error.
LeadingCountDecides ==
  LoadedWholeSponge
    => /\ result.st = "ok" => BeginsWithValues(FileData.v, FileVolume)
       /\ BeginsWithValues(FileData.v, FileVolume) => result.st # "err"

C6_Witness ==
  /\ LoadedWholeSponge /\ result.st = "ok"
  /\ FileVolume > 0
  /\ CompleteValues(FileData.v) > FileVolume

\* C7 as stated: no codec operation panics, every failure comes back as an
\* error value.
C7_NoPanic == result.st # "panic"

\* The block name of a palette text: the text before its first '['.
TextName(text) ==
  IF Find(text, "[") = 0 THEN text ELSE SubSeq(text, 1, Find(text, "[") - 1)

\* C8 as stated: soft defects never abort a decode.  A file that passes the
\* hard checks gives a document; a data index without a palette entry and a
\* palette text with an unknown block name leave the position without a
\* block; a known block with unresolvable properties gets its default state.
C8_SoftDegradation ==
  /\ LoadedLitematic => result.st # "panic"
  /\ (LoadedWholeSponge /\ BeginsWithValues(FileData.v, FileVolume))
       => /\ result.st = "ok"
          /\ \A i \in 0..(FileVolume - 1) :
               LET idx == decode_varints(FileData.v, FileVolume).vals[i + 1]
                   pm == palette_by_index(FilePalette.v)
                   pos == sponge_position(i,
                            AsU16(get_short(FileDataRoot, "Width").v),
                            AsU16(get_short(FileDataRoot, "Length").v),
                            sponge_offset(get_int_array(FileDataRoot, "Offset")))
               IN  /\ (idx \notin DOMAIN pm \/ Block_from_name(TextName(pm[idx])) = 0)
                        => \A e \in Range(result.blocks) : e[1] # pos
                   /\ (idx \in DOMAIN pm /\ pm[idx] = BadPropsText)
                        => <<pos, Registry[Block_from_name(TextName(pm[idx]))].default>>
                             \in Range(result.blocks)

\* C9: save_schematic on an empty block list returns the error "Clipboard is
\* empty" and leaves the path as it was: no file is created or changed.
C9_EmptySaveWritesNothing ==
  [][(clipboard = <<>> /\ result'.op = "save")
       => (file' = file /\ result'.st = "err" /\ result'.msg = "Clipboard is empty")]_vars

C9_Witness ==
  /\ clipboard = <<>>
  /\ result.op = "save" /\ result.st = "err" /\ result.msg = "Clipboard is empty"
  /\ file.kind = "nbt"

\* The children of the loaded file's Regions compound.
FileRegions == UnwrapOr(get_compound(file.root, "Regions"), <<>>)

\* A region without a palette compound or without a packed long array.
LacksContent(region_tag) ==
  /\ region_tag.t = "compound"
  /\ \/ ~get_compound(region_tag.v, "BlockStatePalette").some
     \/ ~get_long_array(region_tag.v, "BlockStates").some

\* A region whose size is known and has a zero component.
ZeroVolume(region_tag) ==
  LET size == OrElse(get_region_size(region_tag.v), get_size_from_metadata(file.root))
  IN  size.some /\ Abs(size.v[1]) * Abs(size.v[2]) * Abs(size.v[3]) = 0

\* All regions decode and none of them yields a non-air block.
NoRegionYieldsBlock ==
  LET merged == litematic_regions(file.root, FileRegions, 1, EmptyAcc)
  IN  merged.st = "ok" /\ merged.acc.blocks = <<>>

\* Some region's palette holds a text whose ']' lies before its '['.
HasMalformedText ==
  \E k \in 1..Len(FileRegions) :
    /\ FileRegions[k][2].t = "compound"
    /\ get_compound(FileRegions[k][2].v, "BlockStatePalette").some
    /\ \E child \in Range(get_compound(FileRegions[k][2].v, "BlockStatePalette").v) :
         parse_block_state_string(child[1]).panic

PlainRegion(region_tag) ==
  /\ region_tag.t = "compound"
  /\ get_int_array(region_tag.v, "Position").some
  /\ get_int_array(region_tag.v, "Size").some
  /\ get_compound(region_tag.v, "BlockStatePalette") = Some(LitematicPalette)
  /\ get_long_array(region_tag.v, "BlockStates").some
  /\ Len(get_long_array(region_tag.v, "BlockStates").v) >= 1

\* The base of a region on one axis, as C11 states it.
StatedBase(p, s) == IF s >= 0 THEN p ELSE p + s + 1

\* The absolute coordinate of local index i, as C11 states it.
StatedAbsolute(i, p, s) ==
  <<StatedBase(p[1], s[1]) + (i % Abs(s[1])),
    StatedBase(p[2], s[2]) + (i \div (Abs(s[1]) * Abs(s[3]))),
    StatedBase(p[3], s[3]) + ((i \div Abs(s[1])) % Abs(s[3]))>>

\* Entry i of a word of 4-bit entries.
WordEntry(word, i) ==
  word[4 * i + 1] + 2 * word[4 * i + 2] + 4 * word[4 * i + 3] + 8 * word[4 * i + 4]

\* The absolute coordinates of the stone blocks of a plain region.
RegionStones(region_tag) ==
  LET p == get_int_array(region_tag.v, "Position").v
      s == get_int_array(region_tag.v, "Size").v
      word == get_long_array(region_tag.v, "BlockStates").v[1]
  IN  {StatedAbsolute(i, p, s) :
         i \in {j \in 0..(Abs(s[1]) * Abs(s[2]) * Abs(s[3]) - 1) : WordEntry(word, j) = 1}}

\* The absolute coordinates of a document's blocks: offset plus position.
AbsoluteBlocks ==
  {<<e[1][1] + result.offset[1], e[1][2] + result.offset[2], e[1][3] + result.offset[3]>> :
     e \in Range(result.blocks)}

StoredCoordinates(k) == {e[1][k] : e \in Range(result.blocks)}

\* The dimension of a document on axis k.
Dimension(k) == <<result.width, result.height, result.length>>[k]

SetMin(S) == CHOOSE m \in S : \A x \in S : m <= x

SetMax(S) == CHOOSE m \in S : \A x \in S : m >= x

\* C12 as stated: after a successful multi-region decode the dimensions are
\* the extents of the bounding box of all blocks, every stored position is the
\* absolute coordinate minus the box's minimum corner, and on each axis some
\* block has coordinate 0 and some block has coordinate dimension - 1.
C12_BoundingBox ==
  (LoadedLitematic /\ result.st = "ok")
    => /\ \A k \in 1..3 :
            /\ Dimension(k) = SetMax(StoredCoordinates(k)) - SetMin(StoredCoordinates(k)) + 1
            /\ 0 \in StoredCoordinates(k)
            /\ Dimension(k) - 1 \in StoredCoordinates(k)
       /\ (\A j \in 1..Len(FileRegions) : PlainRegion(FileRegions[j][2]))
            => /\ AbsoluteBlocks
                    = UNION {RegionStones(FileRegions[j][2]) : j \in 1..Len(FileRegions)}
               /\ \A k \in 1..3 : result.offset[k] = SetMin({v[k] : v \in AbsoluteBlocks})

\* The same for the documents whose extents all fit 16 bits.
BoundingBoxWithin16Bits ==
  (LoadedLitematic /\ result.st = "ok"
     /\ \A k \in 1..3 : SetMax(StoredCoordinates(k)) + 1 <= 65535) => C12_BoundingBox

C12_Witness ==
  /\ LoadedLitematic /\ result.st = "ok"
  /\ Len(FileRegions) = 2
  /\ SetMax(StoredCoordinates(1)) = 65535
  /\ result.width = 0

\* The root has a child of this name that is a compound.
HasCompound(root, name) ==
  \E k \in 1..Len(root) : root[k][1] = name /\ root[k][2].t = "compound"

\* C13: load_schematic gives a parsed root to the multi-region decoder exactly
\* when it has a Regions compound and no Schematic compound, otherwise to the
\* single-region decoder, and returns what the chosen decoder returns, also
\* when that is an error the other decoder would not have returned.
C13_Dispatch ==
  (Loaded /\ file.kind = "nbt")
    => result = [op |-> "load"] @@
                  (IF HasCompound(file.root, "Regions") /\ ~HasCompound(file.root, "Schematic")
                   THEN load_litematic(file.root)
                   ELSE load_sponge(file.root))

\* The chosen decoder fails on a root the other decoder reads.
C13_Witness ==
  /\ Loaded /\ file.kind = "nbt"
  /\ HasCompound(file.root, "Regions") /\ HasCompound(file.root, "Schematic")
  /\ result.st = "err" /\ result.msg = "Missing Width tag"
  /\ load_litematic(file.root).st = "ok"

\* The error of the first required tag the loaded single-region file lacks,
\* in the order Width, Height, Length, Blocks, palette, data; "" when it
\* lacks none.
MissingTagMessage ==
  IF ~get_short(FileDataRoot, "Width").some THEN "Missing Width tag"
  ELSE IF ~get_short(FileDataRoot, "Height").some THEN "Missing Height tag"
  ELSE IF ~get_short(FileDataRoot, "Length").some THEN "Missing Length tag"
  ELSE IF FileVersion >= 3 /\ ~get_compound(FileDataRoot, "Blocks").some
  THEN "Missing Blocks compound"
  ELSE IF ~FilePalette.some
  THEN (IF FileVersion >= 3 THEN "Missing Blocks.Palette compound" ELSE "Missing Palette compound")
  ELSE IF ~FileData.some
  THEN (IF FileVersion >= 3 THEN "Missing Blocks.Data byte array"
        ELSE "Missing BlockData byte array")
  ELSE ""

MissingTagMessages ==
  {"Missing Width tag", "Missing Height tag", "Missing Length tag", "Missing Blocks compound",
   "Missing Blocks.Palette compound", "Missing Palette compound",
   "Missing Blocks.Data byte array", "Missing BlockData byte array"}

\* C14: the single-region decode fails with a missing-tag error when Width,
\* Height or Length is absent, or when the palette or the data byte array is
\* absent at the place the version prescribes (under Blocks for version 3 and
\* later, at the top of the data root for version 2), the version being 3 by
\* default under a Schematic wrapper and 2 by default without one; a file
\* that lacks none of them does not fail with such an error.
C14_MissingTags ==
  LoadedSponge =>
    IF MissingTagMessage # ""
    THEN result.st = "err" /\ result.msg = MissingTagMessage
    ELSE ~(result.st = "err" /\ result.msg \in MissingTagMessages)

\* A wrapper without a Version tag whose palette and data lie at the top of
\* the data root: read as version 3, it lacks Blocks.
C14_Witness ==
  /\ LoadedSponge
  /\ get_compound(file.root, "Schematic").some
  /\ ~get_int(FileDataRoot, "Version").some
  /\ get_compound(FileDataRoot, "Palette").some
  /\ get_byte_array(FileDataRoot, "BlockData").some
  /\ result.st = "err" /\ result.msg = "Missing Blocks compound"

\* The offset the loaded single-region file states: its Offset tag, the
\* origin when it has none of three elements.
StatedOffset ==
  LET tag == get_int_array(FileDataRoot, "Offset")
  IN  IF tag.some /\ Len(tag.v) >= 3 THEN <<tag.v[1], tag.v[2], tag.v[3]>> ELSE <<0, 0, 0>>

StatedWidth == AsU16(UnwrapOr(get_short(FileDataRoot, "Width"), 0))

StatedLength == AsU16(UnwrapOr(get_short(FileDataRoot, "Length"), 0))

\* The palette indices of the loaded file's data, one per cell.
StatedIndices == decode_varints(FileData.v, FileVolume).vals

\* The state the palette entry of data index i resolves to.
StatedState(i) == sponge_state_id(palette_by_index(FilePalette.v), StatedIndices[i + 1]).id

\* The place of data index i.
StatedPlace(i) ==
  << (i % StatedWidth) + StatedOffset[1],
     (i \div (StatedWidth * StatedLength)) + StatedOffset[2],
     (i % (StatedWidth * StatedLength)) \div StatedWidth + StatedOffset[3] >>

\* The data indices whose palette entry resolves to a state that is not air.
KeptIndices == {i \in 0..(FileVolume - 1) : StatedState(i) # air_state_id}

\* C15: a single-region decode that returns a document holds, for each data
\* index i whose palette entry resolves to a non-air state, that state at
\* (i % W + ox, i / (W*L) + oy, (i % (W*L)) / W + oz), with (ox, oy, oz) the
\* Offset tag or the origin, once each and in the order of the indices, and
\* holds nothing else.
C15_Placement ==
  (LoadedWholeSponge /\ result.st = "ok")
    => /\ Len(result.blocks) = Cardinality(KeptIndices)
       /\ Range(result.blocks) = {<<StatedPlace(i), StatedState(i)>> : i \in KeptIndices}
       /\ \A j, k \in 1..Len(result.blocks) :
            j < k => \E a, b \in KeptIndices :
                       /\ a < b
                       /\ result.blocks[j] = <<StatedPlace(a), StatedState(a)>>
                       /\ result.blocks[k] = <<StatedPlace(b), StatedState(b)>>

\* The 2x1x2 grid with palette {0: air, 1: stone}, data [1,0,0,1] and no
\* Offset tag yields stone at (0,0,0) and (1,0,1) and nothing else.
C15_Witness ==
  /\ LoadedWholeSponge /\ result.st = "ok"
  /\ StatedWidth = 2 /\ StatedLength = 2 /\ FileVolume = 4
  /\ ~Get(FileDataRoot, "Offset").some
  /\ FileData.v = <<1, 0, 0, 1>>
  /\ palette_by_index(FilePalette.v) = (0 :> AirText @@ 1 :> StoneText)
  /\ result.blocks = << << <<0, 0, 0>>, 1 >>, << <<1, 0, 1>>, 1 >> >>

\* encode_varints was called and decode_varints was then called on its bytes.
RoundTripped == args.fn = "encode_varints" /\ ret.fn = "decode_varints"

\* C16: for every sequence v of 32-bit signed integers, negative ones
\* included, decode_varints(encode_varints(v), len(v)) returns exactly v.
C16_VarintRoundTrip ==
  RoundTripped => (ret.st = "ok" /\ ret.vals = args.values)

\* -1 and the least i32 take five bytes each and come back as they were.
C16_Witness ==
  /\ RoundTripped
  /\ args.values = <<-1, MinI32>>
  /\ ret.bytes = <<255, 255, 255, 255, 15, 128, 128, 128, 128, 8>>
  /\ ret.st = "ok" /\ ret.vals = <<-1, MinI32>>

\* decode_varints was called on given bytes.
DecodeCalled == args.fn = "decode_varints" /\ ret.fn = "decode_varints"

\* The places of data where a value begins: the first byte, and every byte
\* after one without the continuation bit.
ValueStarts(data) == {s \in 1..Len(data) : s = 1 \/ data[s - 1] < 128}

\* The beginnings of the first n values.
ReadStarts(data, n) ==
  {s \in ValueStarts(data) : Cardinality({t \in ValueStarts(data) : t < s}) < n}

\* The value beginning at s uses more than five groups: its fifth byte has
\* the continuation bit set.
MoreThanFiveGroups(data, s) ==
  s + 4 <= Len(data) /\ \A j \in s..(s + 4) : data[j] >= 128

\* The data ends inside the value beginning at s, after a byte with the
\* continuation bit set.
EndsInside(data, s) == \A j \in s..Len(data) : data[j] >= 128

\* C17: decode_varints returns an error, and no values, when the bytes end
\* after a byte with the continuation bit set while fewer than expected_count
\* values have been produced ("Unexpected end of varint data", unless that
\* last value already has five such bytes) and when one of the values it
\* reads uses more than five groups ("Varint too large"); when every value it
\* reads is complete in at most five groups it returns those values.
C17_VarintErrors ==
  DecodeCalled =>
    LET read == ReadStarts(args.data, args.expected_count)
        toolarge == \E s \in read : MoreThanFiveGroups(args.data, s)
        cut == \E s \in read : EndsInside(args.data, s)
    IN  /\ toolarge => (ret.st = "err" /\ ret.msg = "Varint too large" /\ ret.vals = <<>>)
        /\ cut => (ret.st = "err" /\ ret.vals = <<>>)
        /\ (cut /\ ~toolarge) => ret.msg = "Unexpected end of varint data"
        /\ (~cut /\ ~toolarge) => (ret.st = "ok" /\ Len(ret.vals) = Cardinality(read))

\* Five bytes with the continuation bit are one value too large; the same
\* four bytes and a closing fifth are a value of five groups.
C17_Witness ==
  /\ DecodeCalled
  /\ args.data = <<129, 129, 129, 129, 129>> /\ args.expected_count = 1
  /\ ret.st = "err" /\ ret.msg = "Varint too large"
  /\ decode_varints(<<129, 129, 129, 129, 1>>, 1).vals = <<270549121>>
  /\ decode_varints(<<1, 129>>, 2).msg = "Unexpected end of varint data"

\* unpack_packed_long_array was called.
Unpacked == args.fn = "unpack_packed_long_array" /\ ret.fn = "unpack_packed_long_array"

\* The entries one word holds at the width of the call.
EntriesPerWord == 64 \div args.bits_per_entry

\* The word array of the call is long enough for its count.
LongEnough == Len(args.longs) * EntriesPerWord >= args.block_count

\* Bit k of a returned entry (a u32, held as the i32 of the same bits).
ReturnedBit(v, k) ==
  IF k <= 30 THEN (v \div 2^k) % 2
  ELSE IF k = 31 THEN (IF v < 0 THEN 1 ELSE 0)
  ELSE 0

\* Entry i of the result is the field of the width of the call that begins
\* at bit (i % (64 / width)) * width of word i / (64 / width), within the word.
EntryIsField(i) ==
  LET word == args.longs[i \div EntriesPerWord + 1]
      bit_start == (i % EntriesPerWord) * args.bits_per_entry
  IN  /\ bit_start + args.bits_per_entry <= 64
      /\ \A k \in 0..(args.bits_per_entry - 1) :
           ReturnedBit(ret.vals[i + 1], k) = word[bit_start + k + 1]

\* C18: for every bits_per_entry from 4 to 64, every count and every word
\* array long enough, unpack_packed_long_array returns for each i < count the
\* bits_per_entry-bit field of word i / (64 / bits_per_entry) that begins at
\* bit (i % (64 / bits_per_entry)) * bits_per_entry, and no entry crosses a
\* word boundary.
C18_EntriesAreFields ==
  (Unpacked /\ args.bits_per_entry \in 4..64 /\ LongEnough)
    => /\ ret.st = "ok"
       /\ Len(ret.vals) = args.block_count
       /\ \A i \in 0..(args.block_count - 1) : EntryIsField(i)

\* Up to 32 bits per entry the entries are the fields.
EntriesAreFieldsUpTo32Bits ==
  (Unpacked /\ args.bits_per_entry \in 1..32 /\ LongEnough)
    => /\ ret.st = "ok"
       /\ Len(ret.vals) = args.block_count
       /\ \A i \in 0..(args.block_count - 1) : EntryIsField(i)

\* At 40 bits per entry the word with bits 0, 12 and 35 set comes back as
\* 4097: bit 35 is gone.
C18_Witness ==
  /\ Unpacked
  /\ args.bits_per_entry = 40 /\ args.block_count = 1
  /\ args.longs = <<WordOf({0, 12, 35})>>
  /\ ret.st = "ok" /\ ret.vals = <<4097>>

\* The width of the call is none the function takes.
InvalidWidth == args.bits_per_entry = 0 \/ args.bits_per_entry > 64

\* The words the count of the call needs: ceil(count / floor(64 / width)).
WordsNeeded == (args.block_count + EntriesPerWord - 1) \div EntriesPerWord

\* The call returned an error exactly in the three stated cases and exactly
\* count entries in every other case.
ErrorExactly ==
  IF InvalidWidth THEN ret.st = "err" /\ ret.msg = "Invalid bits_per_entry"
  ELSE IF Len(args.longs) < WordsNeeded
  THEN ret.st = "err" /\ ret.msg = "BlockStates array too short"
  ELSE ret.st = "ok" /\ Len(ret.vals) = args.block_count

\* C19: unpack_packed_long_array returns an error exactly when
\* bits_per_entry is 0 or greater than 64, or when the word array has fewer
\* than ceil(count / floor(64 / bits_per_entry)) words; in every other case
\* it returns exactly count entries.
C19_ErrorExactly == Unpacked => ErrorExactly

\* At every width but 64 the errors and the counts are as stated.
ErrorExactlyBelow64Bits == (Unpacked /\ args.bits_per_entry # 64) => ErrorExactly

\* At 64 bits per entry, built with overflow checks, the call panics although
\* the one word it needs is there.
C19_Witness ==
  /\ Unpacked
  /\ args.bits_per_entry = 64 /\ args.overflow_checks
  /\ args.block_count = 1 /\ Len(args.longs) = 1
  /\ ret.st = "panic"

\* bits_for_palette_size was called.
WidthAsked == args.fn = "bits_for_palette_size" /\ ret.fn = "bits_for_palette_size"

\* The widths a palette of at most MaxPaletteLen + 1 entries can need.
Widths == 4..16

\* C20: bits_for_palette_size(n) is the smallest width w >= 4 with 2^w >= n,
\* that is max(4, ceil(log2(max(n, 1)))): 4 for n <= 16, 5 for n = 17 and 8
\* for n = 256.
C20_SmallestWidth ==
  WidthAsked =>
    /\ ret.bits \in Widths
    /\ 2^ret.bits >= args.palette_len
    /\ \A w \in Widths : 2^w >= args.palette_len => ret.bits <= w
    /\ args.palette_len <= 16 => ret.bits = 4
    /\ args.palette_len = 17 => ret.bits = 5
    /\ args.palette_len = 256 => ret.bits = 8

\* A palette of 256 entries was asked about and got 8 bits.
C20_Witness == WidthAsked /\ args.palette_len = 256 /\ ret.bits = 8

\* parse_block_state_string was called.
Parsed == args.fn = "parse_block_state_string" /\ ret.fn = "parse_block_state_string"

\* The text between the first '[' and the right-most ']' (the end of the
\* text when it has no ']').
StatedPropertyText ==
  SubSeq(args.text, Find(args.text, "[") + 1,
         IF RFind(args.text, "]") = 0 THEN Len(args.text) ELSE RFind(args.text, "]") - 1)

\* One comma-separated segment split at its first '=', both sides without
\* the blanks around them.
StatedPair(segment) ==
  <<Trim(SubSeq(segment, 1, Find(segment, "=") - 1)),
    Trim(SubSeq(segment, Find(segment, "=") + 1, Len(segment)))>>

\* The segments that make an entry: those with an '=' and a key before it.
StatedEntry(segment) == Find(segment, "=") # 0 /\ Len(StatedPair(segment)[1]) > 0

\* The entries of the segments, in input order.
StatedProperties ==
  LET segments == Split(StatedPropertyText, ",")
      entries == SelectSeq(segments, StatedEntry)
  IN  [k \in 1..Len(entries) |-> StatedPair(entries[k])]

\* The call returned the name and the property list as stated.
ParsedAsStated ==
  /\ ret.st = "ok"
  /\ IF Find(args.text, "[") = 0
     THEN ret.name = args.text /\ ret.props = <<>>
     ELSE /\ ret.name = SubSeq(args.text, 1, Find(args.text, "[") - 1)
          /\ ret.props = StatedProperties

\* C21: parse_block_state_string returns the text before the first '[' as
\* the name (the whole text and no properties when there is no '['), and as
\* property list the comma-separated segments between that '[' and the
\* right-most ']', each split at its first '=', in input order, entries with
\* an empty key dropped and whatever follows the right-most ']' ignored.
C21_ParseResult == Parsed => ParsedAsStated

\* The right-most ']' does not lie before the first '['.
BracketsInOrder ==
  Find(args.text, "[") = 0 \/ RFind(args.text, "]") = 0
    \/ Find(args.text, "[") < RFind(args.text, "]")

\* Whenever the brackets are in order the call returns what is stated.
ParsedAsStatedInOrder == (Parsed /\ BracketsInOrder) => ParsedAsStated

\* A text whose only ']' lies before its '[' makes the call panic.
C21_Witness ==
  /\ Parsed
  /\ args.text = <<"a", "]", "[">>
  /\ ret.st = "panic"

\* The file at the path was written by a save of the clipboard.
SavedFile == clipboard # <<>> /\ file.kind = "nbt"

\* The states of the clipboard other than air.
OtherStates == {e[2] : e \in Range(clipboard)} \ {air_state_id}

\* The place of the first clipboard entry of a state.
FirstAppearance(state) ==
  CHOOSE k \in 1..Len(clipboard) :
    clipboard[k][2] = state /\ \A j \in 1..(k - 1) : clipboard[j][2] # state

\* The palette index stated for a state: 0 for air, else one more than the
\* number of other states that appear before it.
StatedIndex(state) ==
  IF state = air_state_id THEN 0
  ELSE 1 + Cardinality({t \in OtherStates : FirstAppearance(t) < FirstAppearance(state)})

\* The text the palette holds for a state.
StatedText(state) ==
  IF state = air_state_id THEN AirText ELSE build_block_state_string(state)

\* C23: the palette save_schematic writes maps air to index 0 and every other
\* distinct state of the input to the next unused index in order of first
\* appearance: its indices are exactly 0..n-1, no index is shared by two
\* states, and an entry whose state is air gets index 0.
C23_PaletteIndices ==
  SavedFile =>
    /\ FilePalette.some
    /\ Len(FilePalette.v) = Cardinality(OtherStates) + 1
    /\ Range(FilePalette.v)
         = {<<StatedText(state), TInt(StatedIndex(state))>> :
              state \in OtherStates \cup {air_state_id}}
    /\ {e[2].v : e \in Range(FilePalette.v)} = 0..Cardinality(OtherStates)

\* Stairs listed before stone: stairs get index 1 and stone index 2.
C23_Witness ==
  /\ SavedFile
  /\ Len(clipboard) = 2 /\ clipboard[1][2] = 5 /\ clipboard[2][2] = 1
  /\ <<StoneText, TInt(2)>> \in Range(FilePalette.v)
  /\ <<AirText, TInt(0)>> \in Range(FilePalette.v)

\* The least and the greatest coordinate of the clipboard on axis k.
ClipMin(k) == SetMin({e[1][k] : e \in Range(clipboard)})

ClipMax(k) == SetMax({e[1][k] : e \in Range(clipboard)})

\* The extent of the clipboard's tight bounding box on axis k.
Extent(k) == ClipMax(k) - ClipMin(k) + 1

\* The 16-bit tag of this name in the saved file, read without sign.
WrittenShort(name) == AsU16(UnwrapOr(get_short(FileDataRoot, name), 0))

\* The grid cell of this index holds the palette index of a clipboard entry
\* at its position, or 0 when the clipboard has no entry there.
CellAsStated(index) ==
  LET pos == << (index % Extent(1)) + ClipMin(1),
                (index \div (Extent(1) * Extent(3))) + ClipMin(2),
                ((index \div Extent(1)) % Extent(3)) + ClipMin(3) >>
      here == {e \in Range(clipboard) : e[1] = pos}
  IN  IF here = {} THEN StatedIndices[index + 1] = 0
      ELSE \E e \in here : StatedIndices[index + 1] = StatedIndex(e[2])

\* The saved file holds the bounding box, its minimum corner and the grid.
GridAsStated ==
  /\ WrittenShort("Width") = Extent(1)
  /\ WrittenShort("Height") = Extent(2)
  /\ WrittenShort("Length") = Extent(3)
  /\ get_int_array(FileDataRoot, "Offset") = Some(<<ClipMin(1), ClipMin(2), ClipMin(3)>>)
  /\ FileData.some
  /\ encode_varints(StatedIndices) = FileData.v
  /\ Len(StatedIndices) = Extent(1) * Extent(2) * Extent(3)
  /\ \A index \in 0..(Extent(1) * Extent(2) * Extent(3) - 1) : CellAsStated(index)

\* C24: save_schematic writes Width, Height and Length equal to the extents
\* of the tight bounding box of the input positions, Offset equal to the
\* box's minimum corner, and a Data grid of exactly Width*Height*Length
\* indices whose cell x + z*Width + y*Width*Length holds the palette index of
\* the input block at (x, y, z) + Offset, and 0 where there is none.
C24_Grid == SavedFile => GridAsStated

\* The same holds whenever every extent fits 16 bits.
GridAsStatedWithin16Bits == (SavedFile /\ FitsU16(clipboard)) => GridAsStated

\* A clipboard 65536 blocks wide is written with Width 0.
C24_Witness ==
  /\ SavedFile
  /\ Extent(1) = 65536
  /\ get_short(FileDataRoot, "Width") = Some(0)
  /\ FileData = Some(<<>>)

\* encode_varints was called; ret.bytes holds what it returned.
Encoded == args.fn = "encode_varints" /\ ret.fn # "none"

\* Group g (0 the lowest) of the unsigned 32-bit pattern of a value: seven
\* bits, the fifth group the four bits that are left.
GroupOf(value, g) ==
  IF g < 4 THEN (value \div 2^(7 * g)) % 128 ELSE (value \div 2^28) % 16

\* The least number of groups that hold the pattern: at least one.
GroupCount(value) ==
  CHOOSE n \in 1..5 :
    /\ \A g \in n..4 : GroupOf(value, g) = 0
    /\ n > 1 => GroupOf(value, n - 1) # 0

\* The bytes stated for one value: its groups, low group first, the
\* continuation bit on every byte but the last.
StatedBytes(value) ==
  [k \in 1..GroupCount(value) |->
     GroupOf(value, k - 1) + (IF k < GroupCount(value) THEN 128 ELSE 0)]

RECURSIVE StatedEncoding(_)
StatedEncoding(values) ==
  IF Len(values) = 0 THEN <<>>
  ELSE StatedBytes(Head(values)) \o StatedEncoding(Tail(values))

\* C25: encode_varints emits for each value the minimal number of 7-bit
\* groups of its unsigned 32-bit pattern, low group first: one to five bytes
\* per value, one byte for zero, the continuation bit on every byte but the
\* last, and a last byte that is non-zero unless the value is zero.
C25_MinimalGroups ==
  Encoded =>
    /\ ret.bytes = StatedEncoding(args.values)
    /\ \A k \in 1..Len(args.values) :
         LET bytes == StatedBytes(args.values[k])
         IN  /\ Len(bytes) \in 1..5
             /\ args.values[k] = 0 => bytes = <<0>>
             /\ args.values[k] # 0 => bytes[Len(bytes)] # 0
             /\ bytes[Len(bytes)] < 128
             /\ \A j \in 1..(Len(bytes) - 1) : bytes[j] >= 128

\* Zero takes one byte, 128 two and the least i32 five.
C25_Witness ==
  /\ Encoded
  /\ args.values = <<128, MinI32>>
  /\ ret.bytes = <<128, 1, 128, 128, 128, 128, 8>>
  /\ encode_varints(<<0>>) = <<0>>

\* No two entries of the block list have the same position.
OnePerPosition(blocks) ==
  \A j, k \in 1..Len(blocks) : j # k => blocks[j][1] # blocks[k][1]

\* C30: a document returned by either decoder holds at most one entry per
\* position, also for a multi-region file whose regions overlap.
C30_OnePerPosition == LoadedDoc => OnePerPosition(result.blocks)

\* The single-region decoder returns at most one entry per position.
OnePerPositionSingleRegion == (LoadedDoc /\ LoadedSponge) => OnePerPosition(result.blocks)

\* Two regions of one stone block at the same place give a document with two
\* entries at (0,0,0).
C30_Witness ==
  /\ LoadedDoc /\ LoadedLitematic
  /\ Len(FileRegions) = 2
  /\ result.blocks = << << <<0, 0, 0>>, 1 >>, << <<0, 0, 0>>, 1 >> >>

\* ------------------------------------------------------------------------
\* The edit commands
\* ------------------------------------------------------------------------

\* The last command of player p has returned.
Returned(p) == tasks[p].phase = "idle" /\ tasks[p].cmd # "none"

\* C22 as stated: no command writes more than MAX_BLOCKS blocks of the
\* world, whether it is set, replace, walls, clear, hollow, a paste of any
\* clipboard or an undo.
C22_BlockLimit == \A p \in Players : tasks[p].count <= MAX_BLOCKS

\* The commands that loop over the selection write at most MAX_BLOCKS blocks.
BlockLimitOnSelections ==
  \A p \in Players :
    tasks[p].cmd \in {"set", "replace", "walls", "clear", "hollow"}
      => tasks[p].count <= MAX_BLOCKS

\* A paste of the clipboard loaded from the file of 36 blocks has written
\* them all.
C22_Witness ==
  \E p \in Players :
    /\ Returned(p) /\ tasks[p].cmd = "paste" /\ tasks[p].st = "ok"
    /\ tasks[p].count > MAX_BLOCKS

\* Player p has run an edit command and then undo, both to completion, and
\* nobody else changed the world since the edit command began.
UndoneAlone(p) ==
  /\ Returned(p) /\ tasks[p].cmd = "undo" /\ tasks[p].st = "ok"
  /\ tasks[p].alone

\* C26 as stated: after an edit command and an undo of the same player, with
\* no other change of the world in between, every position holds the state it
\* held before the edit command, whatever the clipboard of a paste held.
C26_UndoRestores == \A p \in Players : UndoneAlone(p) => world = tasks[p].before

\* The same when the record that was undone names every position once.
UndoRestoresDistinctPositions ==
  \A p \in Players :
    (UndoneAlone(p) /\ OnePerPosition(tasks[p].todo)) => world = tasks[p].before

\* A clipboard with two entries at one place was pasted where air was and
\* undone: the record named the place twice, and stone is left there.
C26_Witness ==
  \E p \in Players :
    /\ UndoneAlone(p)
    /\ Len(tasks[p].todo) = 2 /\ tasks[p].todo[1][1] = tasks[p].todo[2][1]
    /\ world # tasks[p].before

\* The step issues command cmd of player p.
Begins(p, cmd) == tasks'[p].issued = tasks[p].issued + 1 /\ tasks'[p].cmd = cmd

\* The step is the one in which the command of player p returns without an
\* error.
Completes(p) ==
  /\ tasks[p].phase # "idle" \/ tasks'[p].issued # tasks[p].issued
  /\ tasks'[p].phase = "idle" /\ tasks'[p].st = "ok"

\* C27: the one undo record of a player is replaced by every edit command
\* that completes, also by one that changed no block; a successful undo
\* leaves the player without a record; an undo issued without a record fails
\* with "Nothing to undo." and writes no block.
C27_UndoRecord ==
  [][\A p \in Players :
       /\ (Completes(p) /\ tasks'[p].cmd \in EditCommands)
            => players'[p].undo_data = Some(tasks'[p].undo_blocks)
       /\ (Completes(p) /\ tasks'[p].cmd = "undo") => ~players'[p].undo_data.some
       /\ (Begins(p, "undo") /\ ~players[p].undo_data.some)
            => /\ tasks'[p].phase = "idle" /\ tasks'[p].st = "err"
               /\ tasks'[p].msg = "Nothing to undo."
               /\ world' = world]_vars

\* A second clear of the same selection changed no block, and its empty
\* record took the place of the record of the first.
C27_Witness ==
  \E p \in Players :
    /\ Returned(p) /\ tasks[p].cmd = "clear" /\ tasks[p].st = "ok"
    /\ tasks[p].issued = 2 /\ tasks[p].count = 0
    /\ tasks[p].before # InitialWorld
    /\ players[p].undo_data = Some(<<>>)

\* The volume of the box between the two marked corners.
StatedVolume(p) ==
  (Abs(players[p].pos1.v[1] - players[p].pos2.v[1]) + 1)
  * (Abs(players[p].pos1.v[2] - players[p].pos2.v[2]) + 1)
  * (Abs(players[p].pos1.v[3] - players[p].pos2.v[3]) + 1)

\* The precondition of command cmd does not hold for player p.
FailsPrecondition(p, cmd) ==
  IF cmd = "paste" THEN ~players[p].clipboard.some
  ELSE ~players[p].pos1.some \/ ~players[p].pos2.some \/ StatedVolume(p) > MAX_BLOCKS

\* C28: an edit command issued when its precondition does not hold returns
\* an error, writes no block, and leaves the entry of the player as it was.
C28_FailedPrecondition ==
  [][\A p \in Players : \A cmd \in EditCommands :
       (Begins(p, cmd) /\ FailsPrecondition(p, cmd))
         => /\ tasks'[p].phase = "idle" /\ tasks'[p].st = "err"
            /\ world' = world
            /\ players'[p] = players[p]]_vars

\* A set over the selection of 4 x 3 x 3 blocks was refused.
C28_Witness ==
  \E p \in Players :
    /\ Returned(p) /\ tasks[p].cmd = "set" /\ tasks[p].st = "err"
    /\ players[p].pos1.some /\ players[p].pos2.some
    /\ StatedVolume(p) > MAX_BLOCKS
    /\ world = InitialWorld

\* Every pair an edit command has pushed and written holds the state its own
\* write replaced.
OwnWrites(p) ==
  \A k \in 1..Len(tasks[p].replaced) : tasks[p].undo_blocks[k][2] = tasks[p].replaced[k]

\* C29 as stated: under every interleaving of edit commands each pair of an
\* undo record holds the state that the write of its own command replaced.
C29_OwnWrites == \A p \in Players : tasks[p].cmd \in EditCommands => OwnWrites(p)

\* The same for a command during which no other command changed the world.
OwnWritesAlone ==
  \A p \in Players : (tasks[p].cmd \in EditCommands /\ tasks[p].alone) => OwnWrites(p)

\* Between the read and the write of one command another command changed
\* the block: the record holds a state the write did not replace.
C29_Witness ==
  \E p \in Players :
    /\ Returned(p) /\ tasks[p].cmd \in EditCommands /\ tasks[p].st = "ok"
    /\ \E k \in 1..Len(tasks[p].replaced) : tasks[p].undo_blocks[k][2] # tasks[p].replaced[k]
    /\ players[p].undo_data = Some(tasks[p].undo_blocks)

====
